---- MODULE Spec2Model ----
(***************************************************************************)
(* Model of the Vulkan backend of VenomEngine (lib/vulkan/vulkan.cc):      *)
(* VulkanApplication::Run, its initialization sequence, the physical       *)
(* device selection, the suitability check and the frame loop together     *)
(* with the GPU-side objects the loop synchronises with (fences,           *)
(* semaphores, command buffers, queue submissions, swapchain images), of  *)
(* the queue-family mapping and the queue-create descriptors, of the       *)
(* resource path lookup of lib/common/src/Resources.cc and of the model    *)
(* cache of lib/common/src/Model.cc.                                       *)
(***************************************************************************)
EXTENDS Integers, Sequences, FiniteSets, TLC

(* ------------------------------------------------------------------ *)
(* Bounds of the model                                                 *)
(* ------------------------------------------------------------------ *)
MaxFrames == 3
MaxDevices == 2
MaxMem == 2
MaxAvail == 2
MaxModes == 1
NumImages == 2
MaxFamilies == 2
MaxCreates == 3

(* ------------------------------------------------------------------ *)
(* Program constants                                                   *)
(* ------------------------------------------------------------------ *)
MAX_FRAMES_IN_FLIGHT == 2

Slots == 0 .. (MAX_FRAMES_IN_FLIGHT - 1)

VK_NULL_HANDLE == 0

\* s_deviceExtensions: the device extensions the application enables
s_deviceExtensions == {"VK_KHR_swapchain"}

\* the Error enumeration
ErrorCodes == {"Success", "Failure", "InitializationFailed"}

FailCodes == ErrorCodes \ {"Success"}

(* ------------------------------------------------------------------ *)
(* Physical device selection                                           *)
(* ------------------------------------------------------------------ *)
DeviceTypes == {"Discrete", "Integrated"}

\* what GetVulkanPhysicalDevices reports for one device: vram is the value
\* of GetDeviceLocalVRAMAmount()
Devices == [deviceType : DeviceTypes, geometryShader : BOOLEAN,
            tessellationShader : BOOLEAN, vram : 1 .. MaxMem]

DeviceLists == UNION {[1 .. n -> Devices] : n \in 0 .. MaxDevices}

\* the condition of the "Select GPU" if
Qualifies(d) ==
    /\ d.deviceType = "Discrete"
    /\ d.geometryShader
    /\ d.tessellationShader

\* the VRAM of the currently selected device (index cur, never NULL here)
GetDeviceLocalVRAMAmount(devs, cur) == devs[cur].vram

\* the replacement test of the selection loop: no device selected yet, or
\* the selected one has strictly less device-local memory
ReplacesNoTie(devs, cur, i) ==
    \/ cur = VK_NULL_HANDLE
    \/ GetDeviceLocalVRAMAmount(devs, cur) <= GetDeviceLocalVRAMAmount(devs, i)

Replaces(devs, cur, i) ==
    \/ cur = VK_NULL_HANDLE
    \/ GetDeviceLocalVRAMAmount(devs, cur) < GetDeviceLocalVRAMAmount(devs, i)

\* one iteration of the selection loop on device i: the new value of
\* __physicalDevice (a device is identified by its place in the enumeration)
SelectStep(devs, cur, i) ==
    IF Qualifies(devs[i]) /\ Replaces(devs, cur, i) THEN i ELSE cur

RECURSIVE SelectFrom(_, _, _)
SelectFrom(devs, cur, i) ==
    IF i > Len(devs) THEN cur
    ELSE SelectFrom(devs, SelectStep(devs, cur, i), i + 1)

\* the whole selection loop, from an unselected __physicalDevice
SelectDevice(devs) == SelectFrom(devs, VK_NULL_HANDLE, 1)

(* ------------------------------------------------------------------ *)
(* Suitability check                                                   *)
(* ------------------------------------------------------------------ *)
ExtNames == {"VK_KHR_swapchain", "VK_KHR_maintenance1", "VK_EXT_debug_marker"}

AvailLists == UNION {[1 .. n -> ExtNames] : n \in 0 .. MaxAvail}

\* requiredExtensions after erasing every available extension, in the
\* order of the availableExtensions vector
RECURSIVE EraseAvailable(_, _)
EraseAvailable(required, avail) ==
    IF avail = << >> THEN required
    ELSE EraseAvailable(required \ {Head(avail)}, Tail(avail))

IsDeviceSuitableNoFormats(required, avail, nPresentModes, nSurfaceFormats) ==
    IF EraseAvailable(required, avail) # {} THEN FALSE
    ELSE IF nPresentModes = 0 THEN FALSE
    ELSE TRUE

\* __IsDeviceSuitable: the swapchain lists are given by their sizes
IsDeviceSuitable(required, avail, nPresentModes, nSurfaceFormats) ==
    IF EraseAvailable(required, avail) # {} THEN FALSE
    ELSE IF nPresentModes = 0 \/ nSurfaceFormats = 0 THEN FALSE
    ELSE TRUE

(* ------------------------------------------------------------------ *)
(* Resource paths (common/src/Resources.cc)                            *)
(* ------------------------------------------------------------------ *)
\* a string is the sequence of the pieces it was put together from, and +
\* is \o; the empty string is << >>
ResourceNames == {<< >>, <<"a.png">>, <<"b.png">>}

\* s_basePath as InitializeFilesystem leaves it
BasePaths == {"./resources/", "./../resources/"}

\* GetResourcePath(resourcePath): s_basePath + resourcePath
GetResourcePath(basePath, resourcePath) == <<basePath>> \o <<resourcePath>>

\* the folders GetTexturesResourcePath, GetShadersResourcePath and
\* GetModelsResourcePath hand to __GetResourcePath
CategoryFolders ==
    {GetResourcePath(b, c) : b \in BasePaths, c \in {"textures/", "shaders/", "models/"}}

\* the canonical paths of the files there are
RealPaths == {"/work/a.png", "/work/resources/textures/a.png"}

\* what canonical and relative give when they give no path: an empty path,
\* or an empty path with the error code set
NoPath == {"", "ec"}

\* the paths relative to the current directory
RelativePaths == {"a.png", "resources/textures/a.png"}

\* validPath(path, res): the value returned and what res holds afterwards
validPath(path, res, canon, rel) ==
    LET realPath == canon[path] IN
    IF realPath \in NoPath THEN <<FALSE, res>>
    ELSE IF rel[realPath] \in NoPath THEN <<FALSE, res>>
    ELSE <<TRUE, rel[realPath]>>

\* a lookup that tries the category folder before the path as given
GetResourcePathFolderFirst(rp, fo, canon, rel) ==
    LET first == validPath(fo \o rp, "", canon, rel) IN
    IF first[1] THEN first[2]
    ELSE LET second == validPath(rp, first[2], canon, rel) IN
         IF second[1] THEN second[2] ELSE ""

\* Resources::__GetResourcePath(resourcePath, folder)
__GetResourcePath(rp, fo, canon, rel) ==
    LET first == validPath(rp, "", canon, rel) IN
    IF first[1] THEN first[2]
    ELSE LET second == validPath(fo \o rp, first[2], canon, rel) IN
         IF second[1] THEN second[2] ELSE ""

(* ------------------------------------------------------------------ *)
(* State                                                               *)
(* ------------------------------------------------------------------ *)
VARIABLES
    pc,                 \* position of the CPU thread inside Run
    debugBuild,         \* VENOM_DEBUG: whether DEBUG_CODE(...) is compiled in
    initLog,            \* history: <<step, succeeded>> of every init step executed
    ret,                \* the Error returned by __InitVulkan or __Loop
    result,             \* what Run returned ("none" while it runs)
    k,                  \* loop index i of the creation loops
    __physicalDevice,   \* the selected device (place in the enumeration) or VK_NULL_HANDLE
    __currentFrame,     \* the frame-slot index
    __inFlightFences,   \* per slot: "null", "signaled", "unsignaled"
    __imageAvailableSemaphores, \* per slot: "null", "unsignaled", "pending", "signaled"
    __renderFinishedSemaphores, \* per slot: "null", "unsignaled", "signaled"
    __commandBuffers,   \* per slot: the command buffer's lifecycle state
    subWaiting,         \* per slot: submissions queued, waiting on their semaphore
    subExecuting,       \* per slot: submissions executing on the GPU
    presentQueued,      \* per slot: presents queued, waiting on render-finished
    freeImages,         \* swapchain images the presentation engine can hand out
    imageIndex,         \* the local imageIndex of the current iteration (-1: not yet declared)
    acquired,           \* whether the acquire of the current iteration succeeded
    shouldClose,        \* __context.ShouldClose()
    slotLog,            \* history: the slot of every iteration started
    stepLog,            \* history: the statements of the loop body executed so far
    raised,             \* history: the Error a recording call reported, or "none"
    drained,            \* whether vkDeviceWaitIdle has returned
    physicalDevices,    \* selection check: the enumerated devices
    i,                  \* selection check: the index of the selection loop
    selPc,              \* selection check: position in __InitPhysicalDevices
    selRet,             \* selection check: the Error returned, or "none"
    requiredExtensions, \* suitability check: createInfo's extension names
    availableExtensions,\* suitability check: the device's extensions
    presentModes,       \* suitability check: __swapChain.presentModes
    surfaceFormats,     \* suitability check: __swapChain.surfaceFormats
    suitable,           \* suitability check: the value returned, or "none"
    resourcePath,       \* resource lookup: the name asked for
    folder,             \* resource lookup: the folder of the category
    canonical,          \* resource lookup: what std::filesystem::canonical gives
    relative,           \* resource lookup: what std::filesystem::relative gives
    resolved,           \* resource lookup: the string returned, or "none"
    queueFamilies,      \* queue setup: what each queue family of the device supports
    graphicsQueueFamilyIndices, \* queue setup: __queueFamilies.graphicsQueueFamilyIndices
    presentQueueFamilyIndices,  \* queue setup: __queueFamilies.presentQueueFamilyIndices
    queueCreateInfos,   \* queue setup: the descriptors built for vkCreateDevice
    qPc,                \* queue setup: position in __InitPhysicalDevices
    qRet,               \* queue setup: the Error returned, or "none"
    realPaths,          \* model cache: what GetModelsResourcePath gives for each name
    cachedObjects,      \* model cache: the object cached under each path (nullptr: none)
    objects,            \* model cache: the number of graphics objects made so far
    destroyed,          \* model cache: the objects Destroy was called on
    importLog,          \* model cache: history, <<model, path, Error>> of every ImportModel
    createLog           \* model cache: history, <<path, realPath, model returned>> of every Create

runVars == <<pc, debugBuild, initLog, ret, result, k, __physicalDevice,
             __currentFrame, __inFlightFences, __imageAvailableSemaphores,
             __renderFinishedSemaphores, __commandBuffers, subWaiting,
             subExecuting, presentQueued, freeImages, imageIndex, acquired,
             shouldClose, slotLog, stepLog, raised, drained>>

selVars == <<physicalDevices, i, selPc, selRet>>

suitVars == <<requiredExtensions, availableExtensions, presentModes,
              surfaceFormats, suitable>>

resVars == <<resourcePath, folder, canonical, relative, resolved>>

queueVars == <<queueFamilies, graphicsQueueFamilyIndices,
               presentQueueFamilyIndices, queueCreateInfos, qPc, qRet>>

modelVars == <<realPaths, cachedObjects, objects, destroyed, importLog, createLog>>

vars == <<runVars, selVars, suitVars, resVars, queueVars, modelVars>>

Images == 0 .. (NumImages - 1)

ModeLists == UNION {[1 .. n -> {"entry"}] : n \in 0 .. MaxModes}

\* the state of a VulkanApplication after its constructor
RunInit ==
    /\ pc = "InitContext"
    /\ initLog = << >>
    /\ ret = "none"
    /\ result = "none"
    /\ k = 0
    /\ __physicalDevice = VK_NULL_HANDLE
    /\ __currentFrame = 0
    /\ __inFlightFences = [s \in Slots |-> "null"]
    /\ __imageAvailableSemaphores = [s \in Slots |-> "null"]
    /\ __renderFinishedSemaphores = [s \in Slots |-> "null"]
    /\ __commandBuffers = [s \in Slots |-> "null"]
    /\ subWaiting = [s \in Slots |-> 0]
    /\ subExecuting = [s \in Slots |-> 0]
    /\ presentQueued = [s \in Slots |-> 0]
    /\ freeImages = 0
    /\ imageIndex = -1
    /\ acquired = FALSE
    /\ shouldClose = FALSE
    /\ slotLog = << >>
    /\ stepLog = << >>
    /\ raised = "none"
    /\ drained = FALSE

SelIdle ==
    /\ physicalDevices = << >>
    /\ i = 1
    /\ selPc = "idle"
    /\ selRet = "none"

SuitIdle ==
    /\ requiredExtensions = {}
    /\ availableExtensions = << >>
    /\ presentModes = << >>
    /\ surfaceFormats = << >>
    /\ suitable = "none"

ResIdle ==
    /\ resourcePath = << >>
    /\ folder = << >>
    /\ canonical = << >>
    /\ relative = << >>
    /\ resolved = "none"

QueueIdle ==
    /\ queueFamilies = << >>
    /\ graphicsQueueFamilyIndices = << >>
    /\ presentQueueFamilyIndices = << >>
    /\ queueCreateInfos = << >>
    /\ qPc = "idle"
    /\ qRet = "none"

ModelIdle ==
    /\ realPaths = << >>
    /\ cachedObjects = << >>
    /\ objects = 0
    /\ destroyed = {}
    /\ importLog = << >>
    /\ createLog = << >>

Init ==
    /\ RunInit
    /\ debugBuild \in BOOLEAN
    /\ SelIdle
    /\ SuitIdle
    /\ ResIdle
    /\ QueueIdle
    /\ ModelIdle

(* ------------------------------------------------------------------ *)
(* Run: the initialization sequence                                    *)
(* ------------------------------------------------------------------ *)
gpuVars == <<__inFlightFences, __imageAvailableSemaphores,
             __renderFinishedSemaphores, __commandBuffers, subWaiting,
             subExecuting, presentQueued, freeImages>>

loopVars == <<__currentFrame, imageIndex, acquired, slotLog, stepLog, raised,
             drained>>

\* an initialization step succeeded: the next statement runs
StepOk(step, next) ==
    /\ pc' = next
    /\ initLog' = Append(initLog, <<step, TRUE>>)
    /\ UNCHANGED <<ret, result>>

\* an initialization step failed with err and its caller returns: __InitVulkan
\* passes err up and Run turns any failure into InitializationFailed
StepFail(step, err) ==
    /\ pc' = "Done"
    /\ initLog' = Append(initLog, <<step, FALSE>>)
    /\ ret' = err
    /\ result' = "InitializationFailed"

\* a step whose Error is tested: `if (err = f(); err != Error::Success) return err;`
CheckedStep(step, next) ==
    \/ StepOk(step, next)
    \/ \E err \in FailCodes : StepFail(step, err)

\* a step whose outcome is not looked at: the next statement runs either way
UncheckedStep(step, next) ==
    /\ pc' = next
    /\ \E ok \in BOOLEAN : initLog' = Append(initLog, <<step, ok>>)
    /\ UNCHANGED <<ret, result>>

\* a step that cannot report a failure
PlainStep(step, next) == StepOk(step, next)

\* Run: __context.InitContext()
InitContext ==
    /\ pc = "InitContext"
    /\ \/ StepOk("InitContext", IF debugBuild THEN "InitDebug" ELSE "CreateInstance")
       \/ \E err \in FailCodes : StepFail("InitContext", err)
    /\ UNCHANGED <<debugBuild, k, __physicalDevice, shouldClose, gpuVars, loopVars,
                   selVars, suitVars, resVars, queueVars,
                   modelVars>>

\* __InitVulkan: DEBUG_CODE(InitDebug())
InitDebug ==
    /\ pc = "InitDebug"
    /\ CheckedStep("InitDebug", "CreateInstance")
    /\ UNCHANGED <<debugBuild, k, __physicalDevice, shouldClose, gpuVars, loopVars,
                   selVars, suitVars, resVars, queueVars,
                   modelVars>>

\* __InitVulkan: __CreateInstance(), which fails with InitializationFailed
CreateInstance ==
    /\ pc = "CreateInstance"
    /\ \/ StepOk("CreateInstance",
                 IF debugBuild THEN "PostInstanceDebug" ELSE "GetPhysicalDevices")
       \/ StepFail("CreateInstance", "InitializationFailed")
    /\ UNCHANGED <<debugBuild, k, __physicalDevice, shouldClose, gpuVars, loopVars,
                   selVars, suitVars, resVars, queueVars,
                   modelVars>>

\* __InitVulkan: DEBUG_CODE(_PostInstance_SetDebugParameters())
PostInstanceDebug ==
    /\ pc = "PostInstanceDebug"
    /\ CheckedStep("PostInstanceDebug", "GetPhysicalDevices")
    /\ UNCHANGED <<debugBuild, k, __physicalDevice, shouldClose, gpuVars, loopVars,
                   selVars, suitVars, resVars, queueVars,
                   modelVars>>

\* the enumerations Run is followed on: no device, or a single device of any
\* kind (SpecSelect follows the selection on every list of DeviceLists)
EnumerationsOfRun == {devs \in DeviceLists : Len(devs) <= 1}

\* __InitPhysicalDevices: enumerate the devices, fail on an empty list,
\* otherwise run the selection loop and go on
GetPhysicalDevices ==
    /\ pc = "GetPhysicalDevices"
    /\ \E devs \in EnumerationsOfRun :
         IF devs = << >>
         THEN /\ StepFail("SelectDevice", "InitializationFailed")
              /\ UNCHANGED __physicalDevice
         ELSE /\ StepOk("SelectDevice", "GetQueueFamilies")
              /\ __physicalDevice' = SelectDevice(devs)
    /\ UNCHANGED <<debugBuild, k, shouldClose, gpuVars, loopVars, selVars, suitVars, resVars, queueVars,
                   modelVars>>

\* __queueFamilies = getVulkanQueueFamilies(__physicalDevice)
GetQueueFamilies ==
    /\ pc = "GetQueueFamilies"
    /\ PlainStep("GetQueueFamilies", "CreateSurface")
    /\ UNCHANGED <<debugBuild, k, __physicalDevice, shouldClose, gpuVars, loopVars,
                   selVars, suitVars, resVars, queueVars,
                   modelVars>>

\* __surface.CreateSurface(&__context): the Error it returns is dropped
CreateSurface ==
    /\ pc = "CreateSurface"
    /\ UncheckedStep("CreateSurface", "SetPresentQueueFamilyIndices")
    /\ UNCHANGED <<debugBuild, k, __physicalDevice, shouldClose, gpuVars, loopVars,
                   selVars, suitVars, resVars, queueVars,
                   modelVars>>

SetPresentQueueFamilyIndices ==
    /\ pc = "SetPresentQueueFamilyIndices"
    /\ CheckedStep("SetPresentQueueFamilyIndices", "QueueCreateInfos")
    /\ UNCHANGED <<debugBuild, k, __physicalDevice, shouldClose, gpuVars, loopVars,
                   selVars, suitVars, resVars, queueVars,
                   modelVars>>

\* the queue-create descriptors and the VkDeviceCreateInfo
QueueCreateInfos ==
    /\ pc = "QueueCreateInfos"
    /\ PlainStep("QueueCreateInfos", "InitSwapChainSettings")
    /\ UNCHANGED <<debugBuild, k, __physicalDevice, shouldClose, gpuVars, loopVars,
                   selVars, suitVars, resVars, queueVars,
                   modelVars>>

InitSwapChainSettings ==
    /\ pc = "InitSwapChainSettings"
    /\ CheckedStep("InitSwapChainSettings", "IsDeviceSuitable")
    /\ UNCHANGED <<debugBuild, k, __physicalDevice, shouldClose, gpuVars, loopVars,
                   selVars, suitVars, resVars, queueVars,
                   modelVars>>

\* a suitability test whose verdict is not acted on
SuitabilityCheckIgnored ==
    /\ pc = "IsDeviceSuitable"
    /\ \E avail \in AvailLists, pm \in ModeLists, sf \in ModeLists :
         /\ pc' = "CreateDevice"
         /\ initLog' = Append(initLog, <<"IsDeviceSuitable",
                 IsDeviceSuitable(s_deviceExtensions, avail, Len(pm), Len(sf))>>)
         /\ UNCHANGED <<ret, result>>
    /\ UNCHANGED <<debugBuild, k, __physicalDevice, shouldClose, gpuVars, loopVars,
                   selVars, suitVars, resVars, queueVars,
                   modelVars>>

\* `if (!__IsDeviceSuitable(&createInfo)) return Error::InitializationFailed;`
SuitabilityCheck ==
    /\ pc = "IsDeviceSuitable"
    /\ \E avail \in AvailLists, pm \in ModeLists, sf \in ModeLists :
         IF IsDeviceSuitable(s_deviceExtensions, avail, Len(pm), Len(sf))
         THEN StepOk("IsDeviceSuitable", "CreateDevice")
         ELSE StepFail("IsDeviceSuitable", "InitializationFailed")
    /\ UNCHANGED <<debugBuild, k, __physicalDevice, shouldClose, gpuVars, loopVars,
                   selVars, suitVars, resVars, queueVars,
                   modelVars>>

\* vkCreateDevice, which fails with InitializationFailed
CreateDevice ==
    /\ pc = "CreateDevice"
    /\ \/ StepOk("CreateDevice", "InitSwapChain")
       \/ StepFail("CreateDevice", "InitializationFailed")
    /\ UNCHANGED <<debugBuild, k, __physicalDevice, shouldClose, gpuVars, loopVars,
                   selVars, suitVars, resVars, queueVars,
                   modelVars>>

\* __swapChain.InitSwapChain: on success the swapchain has its images, all of
\* them with the presentation engine
InitSwapChain ==
    /\ pc = "InitSwapChain"
    /\ \/ /\ StepOk("InitSwapChain", "GetDeviceQueues")
          /\ freeImages' = NumImages
       \/ /\ \E err \in FailCodes : StepFail("InitSwapChain", err)
          /\ UNCHANGED freeImages
    /\ UNCHANGED <<debugBuild, k, __physicalDevice, shouldClose, __inFlightFences,
                   __imageAvailableSemaphores, __renderFinishedSemaphores,
                   __commandBuffers, subWaiting, subExecuting, presentQueued,
                   loopVars, selVars, suitVars, resVars, queueVars,
                   modelVars>>

\* GetDeviceQueue for the graphics and the present queue
GetDeviceQueues ==
    /\ pc = "GetDeviceQueues"
    /\ PlainStep("GetDeviceQueues", "InitRenderPass")
    /\ UNCHANGED <<debugBuild, k, __physicalDevice, shouldClose, gpuVars, loopVars,
                   selVars, suitVars, resVars, queueVars,
                   modelVars>>

InitRenderPass ==
    /\ pc = "InitRenderPass"
    /\ CheckedStep("InitRenderPass", "InitSwapChainFramebuffers")
    /\ UNCHANGED <<debugBuild, k, __physicalDevice, shouldClose, gpuVars, loopVars,
                   selVars, suitVars, resVars, queueVars,
                   modelVars>>

InitSwapChainFramebuffers ==
    /\ pc = "InitSwapChainFramebuffers"
    /\ CheckedStep("InitSwapChainFramebuffers", "InitCommandPool")
    /\ UNCHANGED <<debugBuild, k, __physicalDevice, shouldClose, gpuVars, loopVars,
                   selVars, suitVars, resVars, queueVars,
                   modelVars>>

InitCommandPool ==
    /\ pc = "InitCommandPool"
    /\ CheckedStep("InitCommandPool", "CreateCommandBuffer")
    /\ k' = 0
    /\ UNCHANGED <<debugBuild, __physicalDevice, shouldClose, gpuVars, loopVars,
                   selVars, suitVars, resVars, queueVars,
                   modelVars>>

\* one turn of the command-buffer creation loop
CreateCommandBuffer ==
    /\ pc = "CreateCommandBuffer"
    /\ \/ /\ StepOk("CreateCommandBuffer",
                    IF k + 1 = MAX_FRAMES_IN_FLIGHT THEN "InitImageAvailable"
                    ELSE "CreateCommandBuffer")
          /\ __commandBuffers' = [__commandBuffers EXCEPT ![k] = "Initial"]
          /\ k' = IF k + 1 = MAX_FRAMES_IN_FLIGHT THEN 0 ELSE k + 1
       \/ /\ \E err \in FailCodes : StepFail("CreateCommandBuffer", err)
          /\ UNCHANGED <<__commandBuffers, k>>
    /\ UNCHANGED <<debugBuild, __physicalDevice, shouldClose, __inFlightFences,
                   __imageAvailableSemaphores, __renderFinishedSemaphores,
                   subWaiting, subExecuting, presentQueued, freeImages, loopVars,
                   selVars, suitVars, resVars, queueVars,
                   modelVars>>

\* __imageAvailableSemaphores[i].InitSemaphore
InitImageAvailable ==
    /\ pc = "InitImageAvailable"
    /\ \/ /\ StepOk("InitSemaphore", "InitRenderFinished")
          /\ __imageAvailableSemaphores' =
                 [__imageAvailableSemaphores EXCEPT ![k] = "unsignaled"]
       \/ /\ \E err \in FailCodes : StepFail("InitSemaphore", err)
          /\ UNCHANGED __imageAvailableSemaphores
    /\ UNCHANGED <<debugBuild, k, __physicalDevice, shouldClose, __inFlightFences,
                   __renderFinishedSemaphores, __commandBuffers,
                   subWaiting, subExecuting, presentQueued, freeImages, loopVars,
                   selVars, suitVars, resVars, queueVars,
                   modelVars>>

\* __renderFinishedSemaphores[i].InitSemaphore
InitRenderFinished ==
    /\ pc = "InitRenderFinished"
    /\ \/ /\ StepOk("InitSemaphore", "InitFence")
          /\ __renderFinishedSemaphores' =
                 [__renderFinishedSemaphores EXCEPT ![k] = "unsignaled"]
       \/ /\ \E err \in FailCodes : StepFail("InitSemaphore", err)
          /\ UNCHANGED __renderFinishedSemaphores
    /\ UNCHANGED <<debugBuild, k, __physicalDevice, shouldClose, __inFlightFences,
                   __imageAvailableSemaphores, __commandBuffers,
                   subWaiting, subExecuting, presentQueued, freeImages, loopVars,
                   selVars, suitVars, resVars, queueVars,
                   modelVars>>

\* a fence created without VK_FENCE_CREATE_SIGNALED_BIT
FenceCreatedUnsignaled == "unsignaled"

\* the state a fence is created in: VK_FENCE_CREATE_SIGNALED_BIT
FenceCreated == "signaled"

\* __inFlightFences[i].InitFence; after the last slot __InitPhysicalDevices
\* and __InitVulkan return Success
InitFence ==
    /\ pc = "InitFence"
    /\ \/ /\ StepOk("InitFence",
                    IF k + 1 = MAX_FRAMES_IN_FLIGHT THEN "LoadShaders"
                    ELSE "InitImageAvailable")
          /\ __inFlightFences' = [__inFlightFences EXCEPT ![k] = FenceCreated]
          /\ k' = IF k + 1 = MAX_FRAMES_IN_FLIGHT THEN 0 ELSE k + 1
       \/ /\ \E err \in FailCodes : StepFail("InitFence", err)
          /\ UNCHANGED <<__inFlightFences, k>>
    /\ UNCHANGED <<debugBuild, __physicalDevice, shouldClose,
                   __imageAvailableSemaphores, __renderFinishedSemaphores,
                   __commandBuffers, subWaiting, subExecuting, presentQueued, freeImages,
                   loopVars, selVars, suitVars, resVars, queueVars,
                   modelVars>>

\* Run: __shaderPipeline.LoadShaders(...): the Error it returns is dropped
LoadShaders ==
    /\ pc = "LoadShaders"
    /\ UncheckedStep("LoadShaders", "LoopTop")
    /\ UNCHANGED <<debugBuild, k, __physicalDevice, shouldClose, gpuVars, loopVars,
                   selVars, suitVars, resVars, queueVars,
                   modelVars>>

(* ------------------------------------------------------------------ *)
(* __Loop: the frame loop                                              *)
(* ------------------------------------------------------------------ *)
initVars == <<debugBuild, initLog, k, __physicalDevice>>

\* a statement of the loop body has returned: the next one runs
IterStep(step, next) ==
    /\ pc' = next
    /\ stepLog' = Append(stepLog, step)

\* `return err;` out of the loop body
LoopReturn(step, err) ==
    /\ pc' = "LoopReturned"
    /\ stepLog' = Append(stepLog, step)
    /\ ret' = err

\* a loop that does not look at the close request
LoopTopIgnoresClose ==
    /\ pc = "LoopTop"
    /\ Len(slotLog) < MaxFrames
    /\ pc' = "PollEvents"
    /\ slotLog' = Append(slotLog, __currentFrame)
    /\ imageIndex' = -1
    /\ acquired' = FALSE
    /\ UNCHANGED <<initVars, ret, result, shouldClose, gpuVars, __currentFrame,
                   stepLog, raised, drained, selVars, suitVars, resVars, queueVars,
                   modelVars>>

\* while (!__context.ShouldClose()): a new iteration starts on __currentFrame,
\* or the loop is left
LoopTop ==
    /\ pc = "LoopTop"
    /\ IF shouldClose
       THEN /\ pc' = "WaitIdle"
            /\ UNCHANGED <<slotLog, imageIndex, acquired>>
       ELSE /\ Len(slotLog) < MaxFrames
            /\ pc' = "PollEvents"
            /\ slotLog' = Append(slotLog, __currentFrame)
            /\ imageIndex' = -1
            /\ acquired' = FALSE
    /\ UNCHANGED <<initVars, ret, result, shouldClose, gpuVars, __currentFrame,
                   stepLog, raised, drained, selVars, suitVars, resVars, queueVars,
                   modelVars>>

\* an event poll that leaves the loop when the close request is raised
PollEventsLeavesOnClose ==
    /\ pc = "PollEvents"
    /\ pc' = IF shouldClose THEN "WaitIdle" ELSE "WaitFence"
    /\ UNCHANGED <<initVars, ret, result, shouldClose, gpuVars, loopVars,
                   selVars, suitVars, resVars, queueVars,
                   modelVars>>

\* __context.PollEvents()
PollEvents ==
    /\ pc = "PollEvents"
    /\ pc' = "WaitFence"
    /\ UNCHANGED <<initVars, ret, result, shouldClose, gpuVars, loopVars,
                   selVars, suitVars, resVars, queueVars,
                   modelVars>>

\* the windowing layer raises the close request
CloseRequest ==
    /\ pc \notin {"InitContext", "Done"}
    /\ ~shouldClose
    /\ shouldClose' = TRUE
    /\ UNCHANGED <<pc, initVars, ret, result, gpuVars, loopVars, selVars, suitVars, resVars, queueVars,
                   modelVars>>

\* a fence wait that returns at once
FenceWaitReturnsAtOnce(s) == TRUE

\* vkWaitForFences(..., VK_TRUE, UINT64_MAX) returns once the fence is signaled
FenceWaitReturns(s) == __inFlightFences[s] = "signaled"

WaitFence ==
    /\ pc = "WaitFence"
    /\ FenceWaitReturns(__currentFrame)
    /\ IterStep("WaitFence", "ResetFence")
    /\ UNCHANGED <<initVars, ret, result, shouldClose, gpuVars, __currentFrame,
                   imageIndex, acquired, slotLog, raised, drained, selVars, suitVars, resVars, queueVars,
                   modelVars>>

\* a fence reset that takes the fence of the slot after the current one
ResetFenceOfNextSlot ==
    /\ pc = "ResetFence"
    /\ IterStep("ResetFence", "Acquire")
    /\ __inFlightFences' =
           [__inFlightFences EXCEPT ![(__currentFrame + 1) % MAX_FRAMES_IN_FLIGHT] =
                "unsignaled"]
    /\ UNCHANGED <<initVars, ret, result, shouldClose, __imageAvailableSemaphores,
                   __renderFinishedSemaphores, __commandBuffers, subWaiting,
                   subExecuting, presentQueued, freeImages, __currentFrame,
                   imageIndex, acquired, slotLog, raised, drained, selVars, suitVars, resVars, queueVars,
                   modelVars>>

\* vkResetFences
ResetFence ==
    /\ pc = "ResetFence"
    /\ IterStep("ResetFence", "Acquire")
    /\ __inFlightFences' = [__inFlightFences EXCEPT ![__currentFrame] = "unsignaled"]
    /\ UNCHANGED <<initVars, ret, result, shouldClose, __imageAvailableSemaphores,
                   __renderFinishedSemaphores, __commandBuffers, subWaiting,
                   subExecuting, presentQueued, freeImages, __currentFrame, imageIndex,
                   acquired, slotLog, raised, drained, selVars, suitVars, resVars, queueVars,
                   modelVars>>

\* vkAcquireNextImageKHR(..., UINT64_MAX, ...) hands out an image once the
\* presentation engine has one to give
AcquireReturns == freeImages > 0

\* vkAcquireNextImageKHR: its VkResult is dropped. On success imageIndex is
\* written and the slot's image-available semaphore gets a signal operation;
\* on failure imageIndex stays uninitialized (any value, NumImages standing
\* for the values that are no image of the swapchain) and nothing will signal
\* the semaphore
Acquire ==
    /\ pc = "Acquire"
    /\ IterStep("Acquire", "ResetCommandBuffer")
    /\ \/ /\ AcquireReturns
          /\ acquired' = TRUE
          /\ \E img \in Images : imageIndex' = img
          /\ freeImages' = freeImages - 1
          /\ __imageAvailableSemaphores' =
                 [__imageAvailableSemaphores EXCEPT ![__currentFrame] = "pending"]
       \/ /\ acquired' = FALSE
          /\ \E img \in Images \cup {NumImages} : imageIndex' = img
          /\ UNCHANGED <<__imageAvailableSemaphores, freeImages>>
    /\ UNCHANGED <<initVars, ret, result, shouldClose, __inFlightFences,
                   __renderFinishedSemaphores, __commandBuffers, subWaiting,
                   subExecuting, presentQueued, __currentFrame, slotLog, raised,
                   drained, selVars, suitVars, resVars, queueVars,
                   modelVars>>

\* an iteration that does not reset its command buffer
ResetCommandBufferSkipped ==
    /\ pc = "ResetCommandBuffer"
    /\ IterStep("ResetCommandBuffer", "BeginCommandBuffer")
    /\ UNCHANGED <<initVars, ret, result, shouldClose, gpuVars, __currentFrame,
                   imageIndex, acquired, slotLog, raised, drained, selVars, suitVars, resVars, queueVars,
                   modelVars>>

\* __commandBuffers[__currentFrame]->Reset(0)
ResetCommandBuffer ==
    /\ pc = "ResetCommandBuffer"
    /\ IterStep("ResetCommandBuffer", "BeginCommandBuffer")
    /\ __commandBuffers' = [__commandBuffers EXCEPT ![__currentFrame] = "Initial"]
    /\ UNCHANGED <<initVars, ret, result, shouldClose, __inFlightFences,
                   __imageAvailableSemaphores, __renderFinishedSemaphores,
                   subWaiting, subExecuting, presentQueued, freeImages, __currentFrame,
                   imageIndex, acquired, slotLog, raised, drained, selVars, suitVars, resVars, queueVars,
                   modelVars>>

\* a recording error that only skips the frame
RecordingErrorSkipsFrame(step, err) ==
    /\ pc' = "Advance"
    /\ stepLog' = Append(stepLog, step)
    /\ ret' = err

\* a recording error: `if (auto err = ...; err != Error::Success) return err;`
RecordingError(step, err) == LoopReturn(step, err)

\* BeginCommandBuffer(VK_COMMAND_BUFFER_USAGE_ONE_TIME_SUBMIT_BIT)
BeginCommandBuffer ==
    /\ pc = "BeginCommandBuffer"
    /\ \/ /\ IterStep("BeginCommandBuffer", "Record")
          /\ __commandBuffers' =
                 [__commandBuffers EXCEPT ![__currentFrame] = "Recording"]
          /\ UNCHANGED <<ret, raised>>
       \/ /\ \E err \in FailCodes :
                 /\ raised' = err
                 /\ RecordingError("BeginCommandBufferFailed", err)
          /\ UNCHANGED __commandBuffers
    /\ UNCHANGED <<initVars, result, shouldClose, __inFlightFences,
                   __imageAvailableSemaphores, __renderFinishedSemaphores,
                   subWaiting, subExecuting, presentQueued, freeImages, __currentFrame,
                   imageIndex, acquired, slotLog, drained, selVars, suitVars, resVars, queueVars,
                   modelVars>>

\* a recording that is submitted without EndCommandBuffer
RecordThenSubmit ==
    /\ pc = "Record"
    /\ IterStep("Record", "Submit")
    /\ UNCHANGED <<initVars, ret, result, shouldClose, gpuVars, __currentFrame,
                   imageIndex, acquired, slotLog, raised, drained, selVars, suitVars, resVars, queueVars,
                   modelVars>>

\* BeginRenderPass, BindPipeline, SetViewport, SetScissor, Draw, EndRenderPass
Record ==
    /\ pc = "Record"
    /\ IterStep("Record", "EndCommandBuffer")
    /\ UNCHANGED <<initVars, ret, result, shouldClose, gpuVars, __currentFrame,
                   imageIndex, acquired, slotLog, raised, drained, selVars, suitVars, resVars, queueVars,
                   modelVars>>

EndCommandBuffer ==
    /\ pc = "EndCommandBuffer"
    /\ \/ /\ IterStep("EndCommandBuffer", "Submit")
          /\ __commandBuffers' =
                 [__commandBuffers EXCEPT ![__currentFrame] = "Executable"]
          /\ UNCHANGED <<ret, raised>>
       \/ /\ \E err \in FailCodes :
                 /\ raised' = err
                 /\ RecordingError("EndCommandBufferFailed", err)
          /\ UNCHANGED __commandBuffers
    /\ UNCHANGED <<initVars, result, shouldClose, __inFlightFences,
                   __imageAvailableSemaphores, __renderFinishedSemaphores,
                   subWaiting, subExecuting, presentQueued, freeImages, __currentFrame,
                   imageIndex, acquired, slotLog, drained, selVars, suitVars, resVars, queueVars,
                   modelVars>>

\* a submission failure that is only logged: the present follows
SubmitFailureLogged ==
    /\ IterStep("SubmitFailed", "Present")
    /\ UNCHANGED ret

\* `if (vkQueueSubmit(...) != VK_SUCCESS) { Log::Error(...); return Error::Failure; }`
SubmitFailure == LoopReturn("SubmitFailed", "Failure")

\* vkQueueSubmit with the slot's fence: the submission waits on the slot's
\* image-available semaphore; a failure returns Error::Failure
Submit ==
    /\ pc = "Submit"
    /\ \/ /\ IterStep("Submit", "Present")
          /\ subWaiting' = [subWaiting EXCEPT ![__currentFrame] = @ + 1]
          /\ __commandBuffers' =
                 [__commandBuffers EXCEPT ![__currentFrame] = "Pending"]
          /\ UNCHANGED ret
       \/ /\ SubmitFailure
          /\ UNCHANGED <<subWaiting, __commandBuffers>>
    /\ UNCHANGED <<initVars, result, shouldClose, __inFlightFences,
                   __imageAvailableSemaphores, __renderFinishedSemaphores,
                   subExecuting, presentQueued, freeImages, __currentFrame,
                   imageIndex, acquired, slotLog, raised, drained, selVars, suitVars, resVars, queueVars,
                   modelVars>>

\* a present whose failure ends the loop
PresentChecked ==
    /\ pc = "Present"
    /\ \/ /\ IterStep("Present", "Advance")
          /\ presentQueued' = [presentQueued EXCEPT ![__currentFrame] = @ + 1]
          /\ UNCHANGED ret
       \/ /\ LoopReturn("PresentFailed", "Failure")
          /\ UNCHANGED presentQueued
    /\ UNCHANGED <<initVars, result, shouldClose, __inFlightFences,
                   __imageAvailableSemaphores, __renderFinishedSemaphores,
                   __commandBuffers, subWaiting, subExecuting, freeImages,
                   __currentFrame, imageIndex, acquired, slotLog, raised,
                   drained, selVars, suitVars, resVars, queueVars,
                   modelVars>>

\* vkQueuePresentKHR: its VkResult is dropped; a present that was accepted
\* waits on the slot's render-finished semaphore
Present ==
    /\ pc = "Present"
    /\ IterStep("Present", "Advance")
    /\ \/ presentQueued' = [presentQueued EXCEPT ![__currentFrame] = @ + 1]
       \/ UNCHANGED presentQueued
    /\ UNCHANGED <<initVars, ret, result, shouldClose, __inFlightFences,
                   __imageAvailableSemaphores, __renderFinishedSemaphores,
                   __commandBuffers, subWaiting, subExecuting, freeImages,
                   __currentFrame,
                   imageIndex, acquired, slotLog, raised, drained, selVars, suitVars, resVars, queueVars,
                   modelVars>>

\* a slot index that is not wrapped
NextFrameNoWrap(f) == f + 1

\* (__currentFrame + 1) % MAX_FRAMES_IN_FLIGHT
NextFrame(f) == (f + 1) % MAX_FRAMES_IN_FLIGHT

Advance ==
    /\ pc = "Advance"
    /\ pc' = "LoopTop"
    /\ __currentFrame' = NextFrame(__currentFrame)
    /\ UNCHANGED <<initVars, ret, result, shouldClose, gpuVars, imageIndex,
                   acquired, slotLog, stepLog, raised, drained, selVars, suitVars, resVars, queueVars,
                   modelVars>>

\* no submission is queued or executing
DeviceIdle == \A s \in Slots : subWaiting[s] = 0 /\ subExecuting[s] = 0

\* vkDeviceWaitIdle, then `return Error::Success;`
WaitIdle ==
    /\ pc = "WaitIdle"
    /\ DeviceIdle
    /\ pc' = "LoopReturned"
    /\ drained' = TRUE
    /\ ret' = "Success"
    /\ UNCHANGED <<initVars, result, shouldClose, gpuVars, __currentFrame,
                   imageIndex, acquired, slotLog, stepLog, raised, selVars, suitVars, resVars, queueVars,
                   modelVars>>

\* a Run that passes on what __Loop returned
RunReturnPassesError ==
    /\ pc = "LoopReturned"
    /\ pc' = "Done"
    /\ result' = ret
    /\ UNCHANGED <<initVars, ret, shouldClose, gpuVars, loopVars, selVars, suitVars, resVars, queueVars,
                   modelVars>>

\* Run: `if (res = __Loop(); res != Error::Success) return Error::Failure;
\* return Error::Success;`
RunReturn ==
    /\ pc = "LoopReturned"
    /\ pc' = "Done"
    /\ result' = IF ret # "Success" THEN "Failure" ELSE "Success"
    /\ UNCHANGED <<initVars, ret, shouldClose, gpuVars, loopVars, selVars, suitVars, resVars, queueVars,
                   modelVars>>

(* ------------------------------------------------------------------ *)
(* The GPU and the presentation engine                                 *)
(* ------------------------------------------------------------------ *)
\* the presentation engine signals the image-available semaphore of an acquire
ImageReady(s) ==
    /\ __imageAvailableSemaphores[s] = "pending"
    /\ __imageAvailableSemaphores' =
           [__imageAvailableSemaphores EXCEPT ![s] = "signaled"]
    /\ UNCHANGED <<pc, initVars, ret, result, shouldClose, __inFlightFences,
                   __renderFinishedSemaphores, __commandBuffers, subWaiting,
                   subExecuting, presentQueued, freeImages, loopVars, selVars, suitVars, resVars, queueVars,
                   modelVars>>

\* a queued submission's semaphore wait is satisfied: it starts executing
GpuBegin(s) ==
    /\ subWaiting[s] > 0
    /\ __imageAvailableSemaphores[s] = "signaled"
    /\ __imageAvailableSemaphores' =
           [__imageAvailableSemaphores EXCEPT ![s] = "unsignaled"]
    /\ subWaiting' = [subWaiting EXCEPT ![s] = @ - 1]
    /\ subExecuting' = [subExecuting EXCEPT ![s] = @ + 1]
    /\ UNCHANGED <<pc, initVars, ret, result, shouldClose, __inFlightFences,
                   __renderFinishedSemaphores, __commandBuffers,
                   presentQueued, freeImages, loopVars, selVars, suitVars, resVars, queueVars,
                   modelVars>>

\* a submission made without the slot's fence: its completion signals the
\* render-finished semaphore only
GpuCompleteWithoutFence(s) ==
    /\ subExecuting[s] > 0
    /\ subExecuting' = [subExecuting EXCEPT ![s] = @ - 1]
    /\ __renderFinishedSemaphores' =
           [__renderFinishedSemaphores EXCEPT ![s] = "signaled"]
    /\ __commandBuffers' = [__commandBuffers EXCEPT ![s] =
           IF @ = "Pending" /\ subWaiting[s] + subExecuting[s] = 1
           THEN "Invalid" ELSE @]
    /\ UNCHANGED <<pc, initVars, ret, result, shouldClose, __inFlightFences,
                   __imageAvailableSemaphores, subWaiting,
                   presentQueued, freeImages, loopVars, selVars, suitVars,
                   resVars, queueVars, modelVars>>

\* a submission completes: it signals the slot's render-finished semaphore and
\* fence, and the one-time-submit command buffer leaves the pending state
GpuComplete(s) ==
    /\ subExecuting[s] > 0
    /\ subExecuting' = [subExecuting EXCEPT ![s] = @ - 1]
    /\ __renderFinishedSemaphores' =
           [__renderFinishedSemaphores EXCEPT ![s] = "signaled"]
    /\ __inFlightFences' = [__inFlightFences EXCEPT ![s] = "signaled"]
    /\ __commandBuffers' = [__commandBuffers EXCEPT ![s] =
           IF @ = "Pending" /\ subWaiting[s] + subExecuting[s] = 1
           THEN "Invalid" ELSE @]
    /\ UNCHANGED <<pc, initVars, ret, result, shouldClose,
                   __imageAvailableSemaphores, subWaiting,
                   presentQueued, freeImages, loopVars, selVars, suitVars, resVars, queueVars,
                   modelVars>>

\* a queued present's semaphore wait is satisfied: the image is presented
\* and goes back to the presentation engine
PresentExecute(s) ==
    /\ presentQueued[s] > 0
    /\ __renderFinishedSemaphores[s] = "signaled"
    /\ __renderFinishedSemaphores' =
           [__renderFinishedSemaphores EXCEPT ![s] = "unsignaled"]
    /\ presentQueued' = [presentQueued EXCEPT ![s] = @ - 1]
    /\ freeImages' = IF freeImages < NumImages THEN freeImages + 1 ELSE freeImages
    /\ UNCHANGED <<pc, initVars, ret, result, shouldClose, __inFlightFences,
                   __imageAvailableSemaphores, __commandBuffers, subWaiting,
                   subExecuting, loopVars, selVars, suitVars, resVars, queueVars,
                   modelVars>>

InitSteps ==
    \/ InitContext \/ InitDebug \/ CreateInstance \/ PostInstanceDebug
    \/ GetPhysicalDevices \/ GetQueueFamilies \/ CreateSurface
    \/ SetPresentQueueFamilyIndices \/ QueueCreateInfos \/ InitSwapChainSettings
    \/ SuitabilityCheck \/ CreateDevice \/ InitSwapChain \/ GetDeviceQueues
    \/ InitRenderPass \/ InitSwapChainFramebuffers \/ InitCommandPool
    \/ CreateCommandBuffer \/ InitImageAvailable \/ InitRenderFinished
    \/ InitFence \/ LoadShaders

LoopSteps ==
    \/ LoopTop \/ PollEvents \/ WaitFence \/ ResetFence \/ Acquire
    \/ ResetCommandBuffer \/ BeginCommandBuffer \/ Record \/ EndCommandBuffer
    \/ Submit \/ Present \/ Advance \/ WaitIdle \/ RunReturn

GpuSteps ==
    \E s \in Slots :
        \/ ImageReady(s) \/ GpuBegin(s) \/ GpuComplete(s) \/ PresentExecute(s)

Next == InitSteps \/ LoopSteps \/ CloseRequest \/ GpuSteps

Spec == Init /\ [][Next]_vars

(* ------------------------------------------------------------------ *)
(* __Loop on its own, from the state a successful initialization       *)
(* leaves, with a CPU thread and a GPU that keep going                 *)
(* ------------------------------------------------------------------ *)
\* what a release build's initialization has executed when nothing failed
InitializedLog ==
    <<  <<"InitContext", TRUE>>, <<"CreateInstance", TRUE>>,
        <<"SelectDevice", TRUE>>, <<"GetQueueFamilies", TRUE>>,
        <<"CreateSurface", TRUE>>, <<"SetPresentQueueFamilyIndices", TRUE>>,
        <<"QueueCreateInfos", TRUE>>, <<"InitSwapChainSettings", TRUE>>,
        <<"IsDeviceSuitable", TRUE>>, <<"CreateDevice", TRUE>>,
        <<"InitSwapChain", TRUE>>, <<"GetDeviceQueues", TRUE>>,
        <<"InitRenderPass", TRUE>>, <<"InitSwapChainFramebuffers", TRUE>>,
        <<"InitCommandPool", TRUE>>  >>
    \o [n \in 1 .. MAX_FRAMES_IN_FLIGHT |-> <<"CreateCommandBuffer", TRUE>>]
    \o [n \in 1 .. (3 * MAX_FRAMES_IN_FLIGHT) |->
           IF n % 3 = 0 THEN <<"InitFence", TRUE>> ELSE <<"InitSemaphore", TRUE>>]
    \o << <<"LoadShaders", TRUE>> >>

\* the state in which Run calls __Loop
Initialized ==
    /\ pc = "LoopTop"
    /\ debugBuild = FALSE
    /\ initLog = InitializedLog
    /\ ret = "none"
    /\ result = "none"
    /\ k = 0
    /\ __physicalDevice = 1
    /\ __currentFrame = 0
    /\ __inFlightFences = [s \in Slots |-> FenceCreated]
    /\ __imageAvailableSemaphores = [s \in Slots |-> "unsignaled"]
    /\ __renderFinishedSemaphores = [s \in Slots |-> "unsignaled"]
    /\ __commandBuffers = [s \in Slots |-> "Initial"]
    /\ subWaiting = [s \in Slots |-> 0]
    /\ subExecuting = [s \in Slots |-> 0]
    /\ presentQueued = [s \in Slots |-> 0]
    /\ freeImages = NumImages
    /\ imageIndex = -1
    /\ acquired = FALSE
    /\ shouldClose = FALSE
    /\ slotLog = << >>
    /\ stepLog = << >>
    /\ raised = "none"
    /\ drained = FALSE
    /\ SelIdle
    /\ SuitIdle
    /\ ResIdle
    /\ QueueIdle
    /\ ModelIdle

LoopNext == LoopSteps \/ CloseRequest \/ GpuSteps

\* the single CPU thread goes on to its next statement whenever that statement
\* can return; the image acquire is only certain to return while the
\* presentation engine has an image to hand out
CpuFairness ==
    /\ WF_vars(LoopTop \/ PollEvents \/ WaitFence \/ ResetFence
                \/ ResetCommandBuffer \/ BeginCommandBuffer \/ Record
                \/ EndCommandBuffer \/ Submit \/ Present \/ Advance
                \/ WaitIdle \/ RunReturn)
    /\ WF_vars(AcquireReturns /\ Acquire)

\* the GPU and the presentation engine carry out every operation whose
\* semaphore wait is satisfied
GpuFairness ==
    \A s \in Slots :
        /\ WF_vars(ImageReady(s))
        /\ WF_vars(GpuBegin(s))
        /\ WF_vars(GpuComplete(s))
        /\ WF_vars(PresentExecute(s))

SpecLive == Initialized /\ [][LoopNext]_vars /\ CpuFairness /\ GpuFairness

(* ------------------------------------------------------------------ *)
(* __InitPhysicalDevices up to getVulkanQueueFamilies, on every list   *)
(* of devices GetVulkanPhysicalDevices can return                      *)
(* ------------------------------------------------------------------ *)
SelInit ==
    /\ RunInit
    /\ debugBuild = FALSE
    /\ physicalDevices \in DeviceLists
    /\ i = 1
    /\ selPc = "enumerated"
    /\ selRet = "none"
    /\ SuitIdle
    /\ ResIdle
    /\ QueueIdle
    /\ ModelIdle

\* `if (physicalDevices.empty()) return Error::InitializationFailed;`
CheckEnumerated ==
    /\ selPc = "enumerated"
    /\ IF physicalDevices = << >>
       THEN /\ selPc' = "returned"
            /\ selRet' = "InitializationFailed"
       ELSE /\ selPc' = "selecting"
            /\ UNCHANGED selRet
    /\ UNCHANGED <<physicalDevices, i, runVars, suitVars, resVars, queueVars,
                   modelVars>>

\* one turn of `for (int i = 0; i < physicalDevices.size(); ++i)`
SelectIteration ==
    /\ selPc = "selecting"
    /\ i <= Len(physicalDevices)
    /\ __physicalDevice' = SelectStep(physicalDevices, __physicalDevice, i)
    /\ i' = i + 1
    /\ UNCHANGED <<physicalDevices, selPc, selRet, pc, debugBuild, initLog, ret,
                   result, k, shouldClose, gpuVars, loopVars, suitVars, resVars, queueVars,
                   modelVars>>

\* the loop is over: getVulkanQueueFamilies(__physicalDevice) is called
SelectionDone ==
    /\ selPc = "selecting"
    /\ i > Len(physicalDevices)
    /\ selPc' = "getVulkanQueueFamilies"
    /\ UNCHANGED <<physicalDevices, i, selRet, runVars, suitVars, resVars, queueVars,
                   modelVars>>

SelNext == CheckEnumerated \/ SelectIteration \/ SelectionDone

SpecSelect == SelInit /\ [][SelNext]_vars

(* ------------------------------------------------------------------ *)
(* __IsDeviceSuitable on every combination of its inputs               *)
(* ------------------------------------------------------------------ *)
SuitInit ==
    /\ RunInit
    /\ debugBuild = FALSE
    /\ SelIdle
    /\ ResIdle
    /\ QueueIdle
    /\ ModelIdle
    /\ requiredExtensions \in SUBSET ExtNames
    /\ availableExtensions \in AvailLists
    /\ presentModes \in ModeLists
    /\ surfaceFormats \in ModeLists
    /\ suitable = "none"

CheckSuitability ==
    /\ suitable = "none"
    /\ suitable' = IF IsDeviceSuitable(requiredExtensions, availableExtensions,
                                       Len(presentModes), Len(surfaceFormats))
                   THEN "true" ELSE "false"
    /\ UNCHANGED <<requiredExtensions, availableExtensions, presentModes,
                   surfaceFormats, runVars, selVars, resVars, queueVars,
                   modelVars>>

SuitNext == CheckSuitability

SpecSuit == SuitInit /\ [][SuitNext]_vars

(* ------------------------------------------------------------------ *)
(* Resources::__GetResourcePath on every name, folder and filesystem   *)
(* ------------------------------------------------------------------ *)
\* the name, the folder and a filesystem: what canonical gives for the two
\* paths the lookup can ask about (nothing for the empty path, which names
\* no file) and what relative gives for every canonical path
ResInit ==
    /\ RunInit
    /\ debugBuild = FALSE
    /\ SelIdle
    /\ SuitIdle
    /\ QueueIdle
    /\ ModelIdle
    /\ resourcePath \in ResourceNames
    /\ folder \in CategoryFolders
    /\ canonical \in [{resourcePath, folder \o resourcePath} -> RealPaths \cup NoPath]
    /\ resourcePath = << >> => canonical[<< >>] \in NoPath
    /\ relative \in [RealPaths -> RelativePaths \cup NoPath]
    /\ resolved = "none"

\* one call of GetTexturesResourcePath, GetShadersResourcePath or
\* GetModelsResourcePath
LookUp ==
    /\ resolved = "none"
    /\ resolved' = __GetResourcePath(resourcePath, folder, canonical, relative)
    /\ UNCHANGED <<resourcePath, folder, canonical, relative, runVars, selVars,
                   suitVars, queueVars, modelVars>>

ResNext == LookUp

SpecRes == ResInit /\ [][ResNext]_vars

(* ------------------------------------------------------------------ *)
(* __InitPhysicalDevices from getVulkanQueueFamilies to vkCreateDevice, *)
(* on every list of queue families the selected device can have        *)
(* ------------------------------------------------------------------ *)
\* the queue families of a device: whether each supports graphics
\* operations and presentation to the surface
QueueFamilyLists ==
    UNION {[1 .. n -> [graphics : BOOLEAN, present : BOOLEAN]] : n \in 0 .. MaxFamilies}

\* the indices (from 0) of the families that support a role, in order
FamilyIndicesOf(families, role) ==
    SelectSeq([j \in 1 .. Len(families) |-> j - 1],
              LAMBDA x : families[x + 1][role])

\* MappedVulkanQueueFamilies::SetPresentQueueFamilyIndices reports an error
\* when no family of the device can present to the surface
PresentRoleResolved(indices) == indices # << >>

\* `float queuePriority = 1.0f;`
queuePriority == 1

\* VkDeviceQueueCreateInfo{.queueFamilyIndex = index, .queueCount = 1}
\* with pQueuePriorities set to &queuePriority
QueueCreateInfo(index) ==
    [queueFamilyIndex |-> index, queueCount |-> 1, pQueuePriorities |-> queuePriority]

\* what list[0] can give: the first element, or, for an empty vector
\* (undefined behaviour), any value
FirstIndex(list) ==
    IF list # << >> THEN {list[1]} ELSE 0 .. MaxFamilies

QueueInit ==
    /\ RunInit
    /\ debugBuild = FALSE
    /\ SelIdle
    /\ SuitIdle
    /\ ResIdle
    /\ ModelIdle
    /\ queueFamilies \in QueueFamilyLists
    /\ graphicsQueueFamilyIndices = << >>
    /\ presentQueueFamilyIndices = << >>
    /\ queueCreateInfos = << >>
    /\ qPc = "getVulkanQueueFamilies"
    /\ qRet = "none"

\* `__queueFamilies = getVulkanQueueFamilies(__physicalDevice);`
ReadQueueFamilies ==
    /\ qPc = "getVulkanQueueFamilies"
    /\ graphicsQueueFamilyIndices' = FamilyIndicesOf(queueFamilies, "graphics")
    /\ qPc' = "SetPresentQueueFamilyIndices"
    /\ UNCHANGED <<queueFamilies, presentQueueFamilyIndices, queueCreateInfos,
                   qRet, runVars, selVars, suitVars, resVars, modelVars>>

\* `if (err = __queueFamilies.SetPresentQueueFamilyIndices(...); err !=
\* Error::Success) return err;`
ReadPresentFamilies ==
    /\ qPc = "SetPresentQueueFamilyIndices"
    /\ presentQueueFamilyIndices' = FamilyIndicesOf(queueFamilies, "present")
    /\ IF ~PresentRoleResolved(presentQueueFamilyIndices')
       THEN /\ qPc' = "returned"
            /\ qRet' \in FailCodes
       ELSE /\ qPc' = "GraphicsQueue"
            /\ UNCHANGED qRet
    /\ UNCHANGED <<queueFamilies, graphicsQueueFamilyIndices, queueCreateInfos,
                   runVars, selVars, suitVars, resVars, modelVars>>

\* the first emplace_back: the descriptor of graphicsQueueFamilyIndices[0]
GraphicsQueueInfo ==
    /\ qPc = "GraphicsQueue"
    /\ \/ /\ \E g \in FirstIndex(graphicsQueueFamilyIndices) :
               queueCreateInfos' = <<QueueCreateInfo(g)>>
          /\ qPc' = "PresentQueue"
       \/ /\ graphicsQueueFamilyIndices = << >>
          /\ qPc' = "crashed"
          /\ UNCHANGED queueCreateInfos
    /\ UNCHANGED <<queueFamilies, graphicsQueueFamilyIndices,
                   presentQueueFamilyIndices, qRet, runVars, selVars, suitVars,
                   resVars, modelVars>>

\* a second descriptor whatever the two families are
PresentQueueInfoAlways ==
    /\ qPc = "PresentQueue"
    /\ \/ /\ \E p \in FirstIndex(presentQueueFamilyIndices) :
               queueCreateInfos' = Append(queueCreateInfos, QueueCreateInfo(p))
          /\ qPc' = "PrepareDevice"
       \/ /\ presentQueueFamilyIndices = << >>
          /\ qPc' = "crashed"
          /\ UNCHANGED queueCreateInfos
    /\ UNCHANGED <<queueFamilies, graphicsQueueFamilyIndices,
                   presentQueueFamilyIndices, qRet, runVars, selVars, suitVars,
                   resVars, modelVars>>

\* `if (queueCreateInfos[0].queueFamilyIndex != presentQueueFamilyIndices[0])`
\* and the second emplace_back
PresentQueueInfo ==
    /\ qPc = "PresentQueue"
    /\ \/ /\ \E p \in FirstIndex(presentQueueFamilyIndices) :
               queueCreateInfos' =
                   IF queueCreateInfos[1].queueFamilyIndex # p
                   THEN Append(queueCreateInfos, QueueCreateInfo(p))
                   ELSE queueCreateInfos
          /\ qPc' = "PrepareDevice"
       \/ /\ presentQueueFamilyIndices = << >>
          /\ qPc' = "crashed"
          /\ UNCHANGED queueCreateInfos
    /\ UNCHANGED <<queueFamilies, graphicsQueueFamilyIndices,
                   presentQueueFamilyIndices, qRet, runVars, selVars, suitVars,
                   resVars, modelVars>>

\* createInfo is filled in, then InitSwapChainSettings and
\* __IsDeviceSuitable, either of which can end the initialization
PrepareDevice ==
    /\ qPc = "PrepareDevice"
    /\ \/ /\ qPc' = "vkCreateDevice"
          /\ UNCHANGED qRet
       \/ /\ qPc' = "returned"
          /\ qRet' \in FailCodes
    /\ UNCHANGED <<queueFamilies, graphicsQueueFamilyIndices,
                   presentQueueFamilyIndices, queueCreateInfos, runVars,
                   selVars, suitVars, resVars, modelVars>>

\* `if (VkResult res = vkCreateDevice(...); res != VK_SUCCESS) return
\* Error::InitializationFailed;`
CreateLogicalDevice ==
    /\ qPc = "vkCreateDevice"
    /\ \/ /\ qPc' = "InitSwapChain"
          /\ UNCHANGED qRet
       \/ /\ qPc' = "returned"
          /\ qRet' = "InitializationFailed"
    /\ UNCHANGED <<queueFamilies, graphicsQueueFamilyIndices,
                   presentQueueFamilyIndices, queueCreateInfos, runVars,
                   selVars, suitVars, resVars, modelVars>>

QueueNext ==
    \/ ReadQueueFamilies
    \/ ReadPresentFamilies
    \/ GraphicsQueueInfo
    \/ PresentQueueInfo
    \/ PrepareDevice
    \/ CreateLogicalDevice

SpecQueue == QueueInit /\ [][QueueNext]_vars

(* ------------------------------------------------------------------ *)
(* Model::Create and the cache of graphics objects                     *)
(* (common/src/Model.cc)                                               *)
(* ------------------------------------------------------------------ *)
\* the names Create is called with
ModelNames == {"cube.obj", "models/cube.obj"}

\* what Resources::GetModelsResourcePath can return: the path of a model
\* file, or the empty string
ModelPaths == {"", "resources/models/cube.obj", "resources/models/ship.obj"}

\* the texture files the materials of a scene can name: parentFolder / name
TexturePaths == {"resources/models/cube.png"}

nullptr == 0

\* GetCachedObject(path): the object cached under the path, or nullptr
GetCachedObject(cache, path) == cache[path]

\* _SetInCache(path, object)
_SetInCache(cache, path, object) == [cache EXCEPT ![path] = object]

\* whether Texture::Create(texturePath), called for a texture component of
\* a material, makes a texture object: the scene names a texture that is
\* not in the cache
TextureMade(cache, scene, texture) ==
    scene /\ texture \in TexturePaths /\ GetCachedObject(cache, texture) = nullptr

\* the cache after the materials of the scene are loaded: Texture::Create
\* "tries to load from cache or path", and caches the texture it loaded
LoadMaterials(cache, scene, texture, loaded, object) ==
    IF TextureMade(cache, scene, texture) /\ loaded
    THEN _SetInCache(cache, texture, object)
    ELSE cache

\* Model::ImportModel: Failure when the importer reads no scene, the error
\* of __LoadMeshFromCurrentData when a mesh cannot be loaded, Success
\* otherwise
ImportModel(scene, meshError) ==
    IF ~scene THEN "Failure"
    ELSE IF meshError # "Success" THEN meshError
    ELSE "Success"

ModelInit ==
    /\ RunInit
    /\ debugBuild = FALSE
    /\ SelIdle
    /\ SuitIdle
    /\ ResIdle
    /\ QueueIdle
    /\ realPaths \in [ModelNames -> ModelPaths]
    /\ cachedObjects = [p \in ModelPaths \cup TexturePaths |-> nullptr]
    /\ objects = 0
    /\ destroyed = {}
    /\ importLog = << >>
    /\ createLog = << >>

\* the model made by a call, and the texture made by its import
\* (the inputs of a call: the name, whether the importer reads a scene, the
\* texture its materials name, whether that texture loads, and the Error of
\* the mesh upload)
CreateInputs ==
    [path : ModelNames, scene : BOOLEAN, texture : TexturePaths \cup {"none"},
     loaded : BOOLEAN, meshError : ErrorCodes]

\* a Create that puts the new model in the cache before it imports it
CreateCachesBeforeImport ==
    /\ Len(createLog) < MaxCreates
    /\ \E in \in CreateInputs :
         LET realPath == realPaths[in.path]
             cached == GetCachedObject(cachedObjects, realPath)
             created == objects + 1
             made == TextureMade(cachedObjects, in.scene, in.texture)
             imported == LoadMaterials(cachedObjects, in.scene, in.texture,
                                       in.loaded, created + 1)
             failedTexture == IF made /\ ~in.loaded THEN {created + 1} ELSE {}
             err == ImportModel(in.scene, in.meshError)
         IN  IF cached # nullptr
             THEN /\ createLog' = Append(createLog, <<in.path, realPath, cached>>)
                  /\ UNCHANGED <<cachedObjects, objects, destroyed, importLog>>
             ELSE /\ objects' = IF made THEN created + 1 ELSE created
                  /\ importLog' = Append(importLog, <<created, realPath, err>>)
                  /\ cachedObjects' = _SetInCache(imported, realPath, created)
                  /\ IF err # "Success"
                     THEN /\ destroyed' = destroyed \cup failedTexture \cup {created}
                          /\ createLog' =
                                 Append(createLog, <<in.path, realPath, nullptr>>)
                     ELSE /\ destroyed' = destroyed \cup failedTexture
                          /\ createLog' =
                                 Append(createLog, <<in.path, realPath, created>>)
    /\ UNCHANGED <<realPaths, runVars, selVars, suitVars, resVars, queueVars>>

\* Model::Create(path)
Create ==
    /\ Len(createLog) < MaxCreates
    /\ \E in \in CreateInputs :
         LET realPath == realPaths[in.path]
             cached == GetCachedObject(cachedObjects, realPath)
             created == objects + 1
             made == TextureMade(cachedObjects, in.scene, in.texture)
             imported == LoadMaterials(cachedObjects, in.scene, in.texture,
                                       in.loaded, created + 1)
             failedTexture == IF made /\ ~in.loaded THEN {created + 1} ELSE {}
             err == ImportModel(in.scene, in.meshError)
         IN  IF cached # nullptr
             THEN /\ createLog' = Append(createLog, <<in.path, realPath, cached>>)
                  /\ UNCHANGED <<cachedObjects, objects, destroyed, importLog>>
             ELSE /\ objects' = IF made THEN created + 1 ELSE created
                  /\ importLog' = Append(importLog, <<created, realPath, err>>)
                  /\ IF err # "Success"
                     THEN /\ destroyed' = destroyed \cup failedTexture \cup {created}
                          /\ cachedObjects' = imported
                          /\ createLog' =
                                 Append(createLog, <<in.path, realPath, nullptr>>)
                     ELSE /\ cachedObjects' = _SetInCache(imported, realPath, created)
                          /\ destroyed' = destroyed \cup failedTexture
                          /\ createLog' =
                                 Append(createLog, <<in.path, realPath, created>>)
    /\ UNCHANGED <<realPaths, runVars, selVars, suitVars, resVars, queueVars>>

ModelNext == Create

SpecModel == ModelInit /\ [][ModelNext]_vars

(* ------------------------------------------------------------------ *)
(* Properties of the frame loop                                        *)
(* ------------------------------------------------------------------ *)
\* the submissions of slot s the GPU has not completed
Outstanding(s) == subWaiting[s] + subExecuting[s]

\* the submissions of the slots 0 .. n the GPU has not completed
RECURSIVE OutstandingUpTo(_)
OutstandingUpTo(n) ==
    IF n < 0 THEN 0 ELSE Outstanding(n) + OutstandingUpTo(n - 1)

\* the statements of one iteration, in the order of the loop body
IterationOrder ==
    <<"WaitFence", "ResetFence", "Acquire", "ResetCommandBuffer",
      "BeginCommandBuffer", "Record", "EndCommandBuffer", "Submit", "Present">>

\* the entry a failing statement leaves in stepLog
FailedName(step) ==
    CASE step = "BeginCommandBuffer" -> "BeginCommandBufferFailed"
      [] step = "EndCommandBuffer" -> "EndCommandBufferFailed"
      [] step = "Submit" -> "SubmitFailed"
      [] OTHER -> "never"

\* the place in its iteration of the n-th statement executed
PlaceInIteration(n) == ((n - 1) % Len(IterationOrder)) + 1

\* the number of the iteration the n-th statement executed belongs to
IterationOf(n) == ((n - 1) \div Len(IterationOrder)) + 1

\* C1: the frame-slot index starts at 0, always lies in
\* [0, MAX_FRAMES_IN_FLIGHT), the n-th iteration runs on slot
\* (n - 1) mod MAX_FRAMES_IN_FLIGHT (0,1,0,1,... for two slots), and when an
\* iteration is over the index is the iteration's slot plus one, wrapped
C1_FrameIndexAdvances ==
    /\ __currentFrame \in 0 .. (MAX_FRAMES_IN_FLIGHT - 1)
    /\ slotLog = << >> => __currentFrame = 0
    /\ \A n \in 1 .. Len(slotLog) : slotLog[n] = (n - 1) % MAX_FRAMES_IN_FLIGHT
    /\ (slotLog # << >> /\ pc \in {"LoopTop", "WaitIdle"}) =>
           __currentFrame = (slotLog[Len(slotLog)] + 1) % MAX_FRAMES_IN_FLIGHT
    /\ (slotLog # << >> /\ pc \in {"PollEvents", "WaitFence", "ResetFence",
                                   "Acquire", "ResetCommandBuffer",
                                   "BeginCommandBuffer", "Record",
                                   "EndCommandBuffer", "Submit", "Present",
                                   "Advance"}) =>
           __currentFrame = slotLog[Len(slotLog)]

\* three iterations have run, on the slots 0, 1, 0, and the index is 1 again
C1_Witness ==
    /\ pc = "LoopTop"
    /\ slotLog = <<0, 1, 0>>
    /\ __currentFrame = 1

\* C2: every slot has at most one submission outstanding, so at most
\* MAX_FRAMES_IN_FLIGHT over all slots, and from the fence reset to the
\* submit of an iteration the slot being reused has none
C2_OneOutstandingPerSlot ==
    /\ \A s \in Slots : Outstanding(s) <= 1
    /\ OutstandingUpTo(MAX_FRAMES_IN_FLIGHT - 1) <= MAX_FRAMES_IN_FLIGHT
    /\ pc \in {"ResetFence", "Acquire", "ResetCommandBuffer", "BeginCommandBuffer",
               "Record", "EndCommandBuffer", "Submit"} =>
           Outstanding(__currentFrame) = 0

\* slot 0 has been reused and submitted again while slot 1's submission is
\* still outstanding
C2_Witness ==
    /\ Len(slotLog) = 3
    /\ pc = "Present"
    /\ Outstanding(0) = 1
    /\ Outstanding(1) = 1

\* C3: the statements executed by the loop are, iteration after iteration,
\* wait-fence, reset-fence, acquire, reset command buffer, begin, record,
\* end, submit, present, each one after the one before it; a statement of
\* the next iteration comes only after the present of the current one, and
\* a statement that failed is the last one executed
C3_IterationStepsInOrder ==
    /\ \A n \in 1 .. Len(stepLog) :
           \/ stepLog[n] = IterationOrder[PlaceInIteration(n)]
           \/ /\ n = Len(stepLog)
              /\ stepLog[n] = FailedName(IterationOrder[PlaceInIteration(n)])
    /\ stepLog # << >> => IterationOf(Len(stepLog)) <= Len(slotLog)
    /\ slotLog # << >> =>
           Len(stepLog) >= (Len(slotLog) - 1) * Len(IterationOrder)
    /\ pc \in {"Advance", "LoopTop", "WaitIdle"} =>
           Len(stepLog) = Len(slotLog) * Len(IterationOrder)

\* the second iteration has issued its present after a complete first one
C3_Witness ==
    /\ pc = "Advance"
    /\ Len(slotLog) = 2
    /\ Len(stepLog) = 18
    /\ stepLog[18] = "Present"
    /\ stepLog[10] = "WaitFence"

\* C4 as claimed: whenever __Loop has returned, on whatever path, no
\* submission is outstanding
C4_DrainedOnEveryExit ==
    (pc \in {"LoopReturned", "Done"} /\ result # "InitializationFailed") =>
        \A s \in Slots : Outstanding(s) = 0

(* ------------------------------------------------------------------ *)
(* Properties of the device selection and of the suitability check     *)
(* ------------------------------------------------------------------ *)
\* the places of the enumeration that hold a discrete GPU with geometry and
\* tessellation shaders
Candidates ==
    {j \in 1 .. Len(physicalDevices) :
        /\ physicalDevices[j].deviceType = "Discrete"
        /\ physicalDevices[j].geometryShader
        /\ physicalDevices[j].tessellationShader}

\* C5: when the list holds a qualifying device, the device selected is a
\* qualifying one, none of the qualifying devices has more device-local
\* memory, and it is the first of those with as much; on
\* [Integrated, Discrete] the second device is selected
C5_SelectsFirstMaxVram ==
    (selPc = "getVulkanQueueFamilies" /\ Candidates # {}) =>
        /\ __physicalDevice \in Candidates
        /\ \A j \in Candidates :
               /\ physicalDevices[j].vram <= physicalDevices[__physicalDevice].vram
               /\ physicalDevices[j].vram = physicalDevices[__physicalDevice].vram
                      => __physicalDevice <= j
        /\ (/\ Len(physicalDevices) = 2
            /\ physicalDevices[1].deviceType = "Integrated"
            /\ physicalDevices[2].deviceType = "Discrete") => __physicalDevice = 2

\* two qualifying devices with the same memory: the first one is selected
C5_Witness ==
    /\ selPc = "getVulkanQueueFamilies"
    /\ Len(physicalDevices) = 2
    /\ Candidates = {1, 2}
    /\ physicalDevices[1].vram = physicalDevices[2].vram
    /\ __physicalDevice = 1

\* C6 as claimed: on a list without a qualifying device
\* __InitPhysicalDevices returns InitializationFailed and does not go on to
\* the queue-family lookup with an unselected device
C6_NoCandidateFails ==
    (selPc \in {"returned", "getVulkanQueueFamilies"} /\ Candidates = {}) =>
        /\ selRet = "InitializationFailed"
        /\ selPc # "getVulkanQueueFamilies"

\* C7: __IsDeviceSuitable returns false exactly when a required extension
\* is not among the available ones, or there is no present mode, or there is
\* no surface format
C7_SuitableIff ==
    suitable # "none" =>
        (suitable = "false" <=>
            \/ \E e \in requiredExtensions :
                   \A n \in 1 .. Len(availableExtensions) :
                       availableExtensions[n] # e
            \/ presentModes = << >>
            \/ surfaceFormats = << >>)

\* required {VK_KHR_swapchain}, nothing available: the check returned false
C7_Witness ==
    /\ requiredExtensions = {"VK_KHR_swapchain"}
    /\ availableExtensions = << >>
    /\ presentModes # << >>
    /\ surfaceFormats # << >>
    /\ suitable = "false"

(* ------------------------------------------------------------------ *)
(* Properties of Run                                                   *)
(* ------------------------------------------------------------------ *)
\* C8 as claimed: an initialization step that failed is the last one
\* executed, the loop is not entered and Run returns an error
C8_InitFailFast ==
    \A n \in 1 .. Len(initLog) :
        initLog[n][2] = FALSE =>
            /\ n = Len(initLog)
            /\ slotLog = << >>
            /\ stepLog = << >>
            /\ pc = "Done"
            /\ result \in {"Failure", "InitializationFailed"}

\* the place of a step in the order that C9 states: a step C9 names has
\* its place in that order, and a step C9 does not name has the place of the
\* named step it follows in Run
Rank(step) ==
    CASE step = "SelectDevice" -> 1
      [] step = "GetQueueFamilies" -> 1
      [] step = "CreateSurface" -> 2
      [] step = "SetPresentQueueFamilyIndices" -> 2
      [] step = "QueueCreateInfos" -> 2
      [] step = "InitSwapChainSettings" -> 3
      [] step = "IsDeviceSuitable" -> 4
      [] step = "CreateDevice" -> 5
      [] step = "InitSwapChain" -> 6
      [] step = "GetDeviceQueues" -> 6
      [] step = "InitRenderPass" -> 7
      [] step = "InitSwapChainFramebuffers" -> 8
      [] step = "InitCommandPool" -> 9
      [] step = "CreateCommandBuffer" -> 10
      [] step = "InitSemaphore" -> 11
      [] step = "InitFence" -> 11
      [] step = "LoadShaders" -> 12
      [] OTHER -> 0

\* the steps C9 names that are executed once
NamedOnce ==
    {"SelectDevice", "CreateSurface", "InitSwapChainSettings",
     "IsDeviceSuitable", "CreateDevice", "InitSwapChain", "InitRenderPass",
     "InitSwapChainFramebuffers", "InitCommandPool"}

\* the steps C9 names that are executed once per slot
NamedPerSlot == {"CreateCommandBuffer", "InitSemaphore", "InitFence"}

\* step was executed, with the given outcome, before the n-th entry
Before(step, ok, n) == \E m \in 1 .. (n - 1) : initLog[m] = <<step, ok>>

\* C9: the initialization steps are executed in the order selection, surface,
\* swapchain settings, suitability, vkCreateDevice, InitSwapChain, render
\* pass, framebuffers, command pool, command buffers, semaphores and fences
\* (no step before one of an earlier place, and a step executed once comes
\* strictly after everything of its own place); vkCreateDevice comes after a
\* successful InitSwapChainSettings and a positive suitability check,
\* InitSwapChain after a successful vkCreateDevice,
\* InitSwapChainFramebuffers after a successful InitRenderPass; an
\* initialization that succeeded executed all of them. Stated of every
\* state up to the first iteration of the loop: the loop executes no
\* initialization step
C9_InitOrder ==
    slotLog = << >> =>
    /\ \A n \in 2 .. Len(initLog) :
           /\ Rank(initLog[n - 1][1]) <= Rank(initLog[n][1])
           /\ initLog[n][1] \in NamedOnce =>
                  Rank(initLog[n - 1][1]) < Rank(initLog[n][1])
    /\ \A n \in 1 .. Len(initLog) :
           /\ initLog[n][1] = "CreateDevice" =>
                  /\ Before("InitSwapChainSettings", TRUE, n)
                  /\ Before("IsDeviceSuitable", TRUE, n)
           /\ initLog[n][1] = "InitSwapChain" => Before("CreateDevice", TRUE, n)
           /\ initLog[n][1] = "InitSwapChainFramebuffers" =>
                  Before("InitRenderPass", TRUE, n)
    /\ pc \in {"LoadShaders", "LoopTop"} =>
           \A step \in NamedOnce \cup NamedPerSlot :
               \E n \in 1 .. Len(initLog) : initLog[n][1] = step

\* an initialization that went through, the loop not yet started
C9_Witness ==
    /\ pc = "LoopTop"
    /\ slotLog = << >>
    /\ \A s \in Slots : __inFlightFences[s] = "signaled"
    /\ Before("IsDeviceSuitable", TRUE, Len(initLog))

\* C10: when BeginCommandBuffer or EndCommandBuffer reports an error, it is
\* the last statement the loop executes: __Loop returns that error, nothing
\* of that frame is submitted or presented, the slot index stays on the
\* frame's slot, no iteration follows and Run returns Failure
C10_RecordingErrorIsFatal ==
    \A n \in 1 .. Len(stepLog) :
        stepLog[n] \in {"BeginCommandBufferFailed", "EndCommandBufferFailed"} =>
            /\ n = Len(stepLog)
            /\ pc \in {"LoopReturned", "Done"}
            /\ raised \in {"Failure", "InitializationFailed"}
            /\ ret = raised
            /\ Len(slotLog) = IterationOf(n)
            /\ __currentFrame = slotLog[Len(slotLog)]
            /\ Outstanding(__currentFrame) = 0
            /\ pc = "Done" => result = "Failure"

\* EndCommandBuffer failed in the second iteration and Run has returned
C10_Witness ==
    /\ pc = "Done"
    /\ Len(slotLog) = 2
    /\ stepLog[Len(stepLog)] = "EndCommandBufferFailed"
    /\ result = "Failure"

\* C11: when vkQueueSubmit fails it is the last statement the loop executes:
\* __Loop returns Failure at once, no present is issued for that frame, the
\* slot index stays on the frame's slot, nothing was submitted for the slot,
\* no iteration follows and Run returns Failure
C11_SubmitFailureIsFatal ==
    \A n \in 1 .. Len(stepLog) :
        stepLog[n] = "SubmitFailed" =>
            /\ n = Len(stepLog)
            /\ pc \in {"LoopReturned", "Done"}
            /\ ret = "Failure"
            /\ Len(slotLog) = IterationOf(n)
            /\ __currentFrame = slotLog[Len(slotLog)]
            /\ Outstanding(__currentFrame) = 0
            /\ pc = "Done" => result = "Failure"

\* vkQueueSubmit failed in the second iteration, the first frame still being
\* presented, and Run has returned
C11_Witness ==
    /\ pc = "Done"
    /\ Len(slotLog) = 2
    /\ stepLog[Len(stepLog)] = "SubmitFailed"
    /\ __currentFrame = 1
    /\ result = "Failure"

\* the steps of the initialization whose Error is not looked at
UncheckedSteps == {"CreateSurface", "LoadShaders"}

\* InitContext or __InitVulkan returned an error: a step whose Error is
\* tested has failed
InitializationReturnedError ==
    \E n \in 1 .. Len(initLog) :
        initLog[n][2] = FALSE /\ initLog[n][1] \notin UncheckedSteps

\* C12: once Run has returned, its result is Success, Failure or
\* InitializationFailed; it is InitializationFailed exactly when InitContext
\* or __InitVulkan returned an error, and then no iteration was started, no
\* statement of the loop ran and the device was not waited for; it is
\* Failure exactly when both succeeded and __Loop returned an error; it is
\* Success exactly when both succeeded and __Loop returned Success, which it
\* does only after the close request, through vkDeviceWaitIdle
C12_RunResultTaxonomy ==
    pc = "Done" =>
        /\ result \in ErrorCodes
        /\ result = "InitializationFailed" <=> InitializationReturnedError
        /\ result = "InitializationFailed" =>
               slotLog = << >> /\ stepLog = << >> /\ ~drained
        /\ result = "Failure" <=>
               (~InitializationReturnedError /\ ret \in FailCodes)
        /\ result = "Success" <=>
               (~InitializationReturnedError /\ ret = "Success")
        /\ result = "Success" => shouldClose /\ drained

\* Run has returned Failure for a recording call that reported
\* InitializationFailed in the first iteration
C12_Witness ==
    /\ pc = "Done"
    /\ result = "Failure"
    /\ ret = "InitializationFailed"
    /\ Len(slotLog) = 1
    /\ ~InitializationReturnedError

(* ------------------------------------------------------------------ *)
(* Shutdown                                                            *)
(* ------------------------------------------------------------------ *)
\* the CPU thread is inside __Loop
InLoop ==
    pc \in {"LoopTop", "PollEvents", "WaitFence", "ResetFence", "Acquire",
            "ResetCommandBuffer", "BeginCommandBuffer", "Record",
            "EndCommandBuffer", "Submit", "Present", "Advance", "WaitIdle"}

\* __Loop has returned Success after vkDeviceWaitIdle
LoopReturnedSuccess == pc \in {"LoopReturned", "Done"} /\ drained /\ ret = "Success"

\* __Loop has returned the error of a recording call or of vkQueueSubmit
LoopReturnedError == pc \in {"LoopReturned", "Done"} /\ ret \in FailCodes

\* the GPU eventually completes every command buffer submitted
GpuCompletesEverySubmission ==
    \A s \in Slots : (Outstanding(s) > 0) ~> (Outstanding(s) = 0)

\* an image acquire that has started eventually returns
AcquireEventuallyReturns == (pc = "Acquire") ~> (pc # "Acquire")

\* C13 as claimed: if the GPU eventually completes every submission, then
\* from any state of the loop in which the close request is raised (it stays
\* raised) the loop eventually waits for the device and __Loop returns
\* Success
C13_ShutdownReturnsSuccess ==
    GpuCompletesEverySubmission =>
        ((InLoop /\ shouldClose) ~> LoopReturnedSuccess)

\* C13 amended: if the GPU eventually completes every submission and the
\* image acquire in progress returns, then from any state of the loop in
\* which the close request is raised __Loop eventually returns: Success
\* after vkDeviceWaitIdle, or the error of a recording call or of
\* vkQueueSubmit that failed in the iteration in progress; and the close
\* request, once raised, stays raised
C13_ShutdownTerminates ==
    /\ (GpuCompletesEverySubmission /\ AcquireEventuallyReturns) =>
           ((InLoop /\ shouldClose) ~> (LoopReturnedSuccess \/ LoopReturnedError))
    /\ [][shouldClose => shouldClose']_vars

\* the close request was raised in the middle of the second iteration and
\* __Loop has returned Success after the device became idle
C13_Witness ==
    /\ pc = "LoopReturned"
    /\ shouldClose
    /\ drained
    /\ ret = "Success"
    /\ Len(slotLog) = 2
    /\ Len(stepLog) = 2 * Len(IterationOrder)

\* the positions of the CPU thread inside one iteration, in program order
BodyOrder ==
    <<"PollEvents", "WaitFence", "ResetFence", "Acquire", "ResetCommandBuffer",
      "BeginCommandBuffer", "Record", "EndCommandBuffer", "Submit", "Present",
      "Advance", "LoopTop">>

InBody == \E n \in 1 .. (Len(BodyOrder) - 1) : pc = BodyOrder[n]

\* the position that follows position p of the iteration
FollowerOf(p) ==
    BodyOrder[(CHOOSE n \in 1 .. (Len(BodyOrder) - 1) : BodyOrder[n] = p) + 1]

\* C14: the close request is looked at only at the top of the loop. A step
\* of the CPU thread inside an iteration goes to the next statement of the
\* iteration whether or not the close request is raised, or leaves __Loop
\* with the error of BeginCommandBuffer, EndCommandBuffer or vkQueueSubmit;
\* the loop is left for vkDeviceWaitIdle only from its top, with the close
\* request raised and every iteration started run through its present; and
\* at the top a raised close request starts no further iteration
C14_CloseSeenAtLoopTopOnly ==
    [][ /\ (InBody /\ pc' # pc) =>
               \/ pc' = FollowerOf(pc)
               \/ /\ pc \in {"BeginCommandBuffer", "EndCommandBuffer", "Submit"}
                  /\ pc' = "LoopReturned"
                  /\ ret' \in FailCodes
        /\ (pc' = "WaitIdle" /\ pc # "WaitIdle") =>
               /\ pc = "LoopTop"
               /\ shouldClose
               /\ Len(stepLog) = Len(slotLog) * Len(IterationOrder)
        /\ (pc = "LoopTop" /\ shouldClose /\ pc' # pc) => pc' = "WaitIdle"
      ]_vars

\* the close request was raised inside the second iteration, which has
\* nevertheless issued its present
C14_Witness ==
    /\ shouldClose
    /\ pc = "Advance"
    /\ Len(slotLog) = 2
    /\ stepLog[Len(stepLog)] = "Present"

\* the objects of slot t: its command buffer, its two semaphores, its fence,
\* and what is queued on them
SlotObjects(t) ==
    <<__commandBuffers[t], __imageAvailableSemaphores[t],
      __renderFinishedSemaphores[t], __inFlightFences[t], subWaiting[t],
      subExecuting[t], presentQueued[t]>>

\* the same after a step
SlotObjectsAfter(t) ==
    <<__commandBuffers'[t], __imageAvailableSemaphores'[t],
      __renderFinishedSemaphores'[t], __inFlightFences'[t], subWaiting'[t],
      subExecuting'[t], presentQueued'[t]>>

\* C15: a step of the CPU thread inside an iteration leaves the command
\* buffer, the semaphores and the fence of every slot other than
\* __currentFrame as they are; the slot stays the same from the start of
\* the iteration to its present and changes only in the index update that
\* ends it, and starting an iteration makes exactly one slot, __currentFrame,
\* the active one
C15_SlotExclusive ==
    [][ /\ (InBody /\ pc' # pc) =>
               \A t \in Slots \ {__currentFrame} :
                   SlotObjectsAfter(t) = SlotObjects(t)
        /\ (InBody /\ pc' # pc /\ pc # "Advance") =>
               __currentFrame' = __currentFrame
        /\ (InBody /\ pc' # pc) => slotLog' = slotLog
        /\ (pc = "LoopTop" /\ pc' = "PollEvents") =>
               /\ slotLog' = Append(slotLog, __currentFrame)
               /\ __currentFrame' = __currentFrame
      ]_vars

\* the iteration on slot 1 has reset its own command buffer while the
\* command buffer of slot 0 is pending on the GPU
C15_Witness ==
    /\ pc = "BeginCommandBuffer"
    /\ __currentFrame = 1
    /\ __commandBuffers[1] = "Initial"
    /\ __commandBuffers[0] = "Pending"
    /\ Outstanding(0) = 1

(* ------------------------------------------------------------------ *)
(* Command buffers                                                     *)
(* ------------------------------------------------------------------ *)
\* the changes of state of a command buffer in its lifecycle: allocation,
\* begin, end, submit, completion of a one-time submission, reset
LifecycleSteps ==
    {<<"null", "Initial">>, <<"Initial", "Recording">>,
     <<"Recording", "Executable">>, <<"Executable", "Pending">>,
     <<"Pending", "Invalid">>, <<"Invalid", "Initial">>}

\* C16: a command buffer changes state only along Initial -> Recording ->
\* Executable -> Pending -> (completed, then reset) Initial. In every
\* iteration the slot's buffer is not Pending when Reset is called, is
\* Initial when BeginCommandBuffer is called, Recording while the commands
\* are recorded, Executable when it is submitted; and in whatever iteration
\* BeginCommandBuffer is called, it finds what it found in the first frame:
\* an Initial buffer with no submission outstanding
C16_CommandBufferLifecycle ==
    /\ [](/\ pc = "ResetCommandBuffer" =>
                 __commandBuffers[__currentFrame] \in {"Initial", "Invalid"}
          /\ pc = "BeginCommandBuffer" =>
                 /\ __commandBuffers[__currentFrame] = "Initial"
                 /\ Outstanding(__currentFrame) = 0
          /\ pc \in {"Record", "EndCommandBuffer"} =>
                 __commandBuffers[__currentFrame] = "Recording"
          /\ pc = "Submit" => __commandBuffers[__currentFrame] = "Executable"
          /\ \A s \in Slots :
                 __commandBuffers[s] = "Pending" <=> Outstanding(s) > 0)
    /\ [][\A s \in Slots :
             __commandBuffers'[s] # __commandBuffers[s] =>
                 <<__commandBuffers[s], __commandBuffers'[s]>> \in LifecycleSteps]_vars

\* slot 0 is used for the second time: its buffer was recorded, submitted,
\* executed and reset, and BeginCommandBuffer is about to be called on it
C16_Witness ==
    /\ pc = "BeginCommandBuffer"
    /\ Len(slotLog) = 3
    /\ __currentFrame = 0
    /\ __commandBuffers[0] = "Initial"
    /\ __commandBuffers[1] = "Pending"

(* ------------------------------------------------------------------ *)
(* Properties of the resource lookup                                   *)
(* ------------------------------------------------------------------ *)
\* path names an existing file whose canonical path can be written relative
\* to the current directory
Resolves(path) ==
    /\ canonical[path] \notin NoPath
    /\ relative[canonical[path]] \notin NoPath

\* the validated form of such a path
ResolvedPathOf(path) == relative[canonical[path]]

\* C17: the lookup returns the empty string exactly when neither
\* resourcePath nor folder + resourcePath resolves; when resourcePath
\* resolves, the result is its validated form, whatever the folder holds;
\* and a result that is not empty is the validated form of one of the two
C17_ResourcePathLookup ==
    resolved # "none" =>
        /\ resolved = "" <=>
               (~Resolves(resourcePath) /\ ~Resolves(folder \o resourcePath))
        /\ Resolves(resourcePath) => resolved = ResolvedPathOf(resourcePath)
        /\ resolved # "" =>
               \E path \in {resourcePath, folder \o resourcePath} :
                   Resolves(path) /\ resolved = ResolvedPathOf(path)

\* a name that resolves both as given and inside the folder, to two
\* different files: the lookup returned the file of the name as given
C17_Witness ==
    /\ resolved # "none"
    /\ resourcePath # << >>
    /\ Resolves(resourcePath)
    /\ Resolves(folder \o resourcePath)
    /\ ResolvedPathOf(resourcePath) # ResolvedPathOf(folder \o resourcePath)
    /\ resolved = ResolvedPathOf(resourcePath)

(* ------------------------------------------------------------------ *)
(* Properties of the GPU-side ordering                                 *)
(* ------------------------------------------------------------------ *)
\* C18 as claimed: the submission of an iteration waits on a semaphore that
\* the acquire of the same iteration signals, so a submission that is
\* queued has a signal of its image-available semaphore coming or there;
\* the present of an iteration is carried out only when the rendering of
\* that iteration has finished, so a queued present whose render-finished
\* semaphore is signaled finds no submission of its slot outstanding; and
\* the image index handed to the present is an image of the swapchain that
\* the acquire of the same iteration returned
C18_FrameOrderedOnGpu ==
    /\ pc \in {"Present", "Advance"} => acquired
    /\ \A s \in Slots :
           subWaiting[s] > 0 =>
               __imageAvailableSemaphores[s] \in {"pending", "signaled"}
    /\ \A s \in Slots :
           (presentQueued[s] > 0 /\ __renderFinishedSemaphores[s] = "signaled") =>
               Outstanding(s) = 0
    /\ pc = "Advance" => (acquired /\ imageIndex \in Images)

\* C19: whatever vkQueuePresentKHR returns, the statement after it is the
\* index update: __Loop does not return there and reports nothing, the
\* index update takes the slot index to the next slot, wrapped, and the
\* next iteration, when the close request is not raised, starts on that slot
C19_PresentOutcomeIgnored ==
    [][ /\ (pc = "Present" /\ pc' # pc) =>
               /\ pc' = "Advance"
               /\ ret' = ret
               /\ result' = result
               /\ __currentFrame' = __currentFrame
        /\ (pc = "Advance" /\ pc' # pc) =>
               /\ pc' = "LoopTop"
               /\ __currentFrame' = (__currentFrame + 1) % MAX_FRAMES_IN_FLIGHT
        /\ (pc = "LoopTop" /\ pc' # pc /\ ~shouldClose) =>
               /\ pc' = "PollEvents"
               /\ slotLog' = Append(slotLog, __currentFrame)
      ]_vars

\* the present of the first iteration was not enqueued (the rendering of
\* slot 0 has finished and its render-finished semaphore is still signaled,
\* with no present waiting on it) and the second iteration runs on slot 1
C19_Witness ==
    /\ pc = "WaitFence"
    /\ slotLog = <<0, 1>>
    /\ __currentFrame = 1
    /\ Outstanding(0) = 0
    /\ __renderFinishedSemaphores[0] = "signaled"
    /\ presentQueued[0] = 0
    /\ ret = "none"

DescriptorsBuilt == qPc \in {"vkCreateDevice", "InitSwapChain"}

\* the graphics and the present family of the device, when it has both
HasBothFamilies ==
    /\ graphicsQueueFamilyIndices # << >>
    /\ presentQueueFamilyIndices # << >>

RoleFamilies == {graphicsQueueFamilyIndices[1], presentQueueFamilyIndices[1]}

\* C21: the queue-create descriptor list handed to vkCreateDevice has
\* exactly one descriptor per distinct family among the graphics family and
\* the present family: one when the two are the same family, two when they
\* differ, never two of the same family, and every descriptor asks for one
\* queue of priority 1.0.
C21_OneDescriptorPerFamily ==
    (DescriptorsBuilt /\ HasBothFamilies) =>
        /\ {queueCreateInfos[n].queueFamilyIndex : n \in DOMAIN queueCreateInfos}
               = RoleFamilies
        /\ Len(queueCreateInfos) = Cardinality(RoleFamilies)
        /\ Len(queueCreateInfos) =
               IF graphicsQueueFamilyIndices[1] = presentQueueFamilyIndices[1]
               THEN 1 ELSE 2
        /\ \A m, n \in DOMAIN queueCreateInfos :
               queueCreateInfos[m].queueFamilyIndex = queueCreateInfos[n].queueFamilyIndex
                   => m = n
        /\ \A n \in DOMAIN queueCreateInfos :
               /\ queueCreateInfos[n].queueCount = 1
               /\ queueCreateInfos[n].pQueuePriorities = 1

\* a device whose two families both support both roles: one descriptor
C21_Witness ==
    /\ DescriptorsBuilt
    /\ HasBothFamilies
    /\ Len(queueFamilies) = 2
    /\ graphicsQueueFamilyIndices = <<0, 1>>
    /\ presentQueueFamilyIndices = <<0, 1>>
    /\ Len(queueCreateInfos) = 1

\* C22: initialization goes on to the logical device only if the graphics
\* role and the present role both resolved to a queue family; a device
\* without a graphics-capable or without a present-capable family makes
\* initialization return an error, and no index is read from an empty list.
C22_BothRolesResolved ==
    /\ qPc \in {"PresentQueue", "PrepareDevice", "vkCreateDevice", "InitSwapChain",
                "crashed"}
           => HasBothFamilies
    /\ qPc = "returned" => qRet \in FailCodes
    /\ qPc # "crashed"

(* ------------------------------------------------------------------ *)
(* The fence wait                                                      *)
(* ------------------------------------------------------------------ *)
\* C23: the fence wait at the start of an iteration never blocks forever.
\* Whenever the CPU thread is at the wait, the fence of the current slot is
\* signaled or a submission of that slot is outstanding (and on the first
\* use of a slot the fence is signaled, as it was created); and if the GPU
\* eventually completes every submission, every iteration that reaches the
\* wait eventually gets past it.
C23_FenceWaitReturns ==
    /\ [](pc = "WaitFence" =>
            /\ __inFlightFences[__currentFrame] = "signaled"
                   \/ Outstanding(__currentFrame) > 0
            /\ Len(slotLog) <= MAX_FRAMES_IN_FLIGHT
                   => __inFlightFences[__currentFrame] = "signaled")
    /\ GpuCompletesEverySubmission =>
           ((pc = "WaitFence") ~> (pc = "ResetFence"))

\* slot 0 is used a second time and its wait has returned: the submission
\* of its first use has completed and signaled the fence
C23_Witness ==
    /\ pc = "ResetFence"
    /\ Len(slotLog) = MAX_FRAMES_IN_FLIGHT + 1
    /\ __currentFrame = 0
    /\ __inFlightFences[0] = "signaled"
    /\ Outstanding(0) = 0
    /\ Outstanding(1) > 0

(* ------------------------------------------------------------------ *)
(* The image acquire                                                   *)
(* ------------------------------------------------------------------ *)
\* the statements of an iteration that follow vkAcquireNextImageKHR
AfterAcquire ==
    {"ResetCommandBuffer", "BeginCommandBuffer", "Record", "EndCommandBuffer",
     "Submit", "Present"}

\* C24: every frame that is recorded, submitted and presented follows a
\* successful image acquire of the same iteration. While the CPU thread is
\* at a statement between the acquire and the index update, the acquire of
\* the iteration has succeeded and imageIndex is an image of the swapchain
\* that it returned; and a queued submission's wait on its image-available
\* semaphore is matched by a signal of the acquire, coming or there.
C24_AcquirePrecedesFrame ==
    /\ pc \in AfterAcquire => (acquired /\ imageIndex \in Images)
    /\ \A s \in Slots :
           subWaiting[s] > 0 =>
               __imageAvailableSemaphores[s] \in {"pending", "signaled"}

(* ------------------------------------------------------------------ *)
(* The semaphores                                                      *)
(* ------------------------------------------------------------------ *)
\* a step that gives the image-available semaphore of slot s a signal
\* operation: a successful acquire on the slot
SignalsImageAvailable(s) ==
    /\ pc = "Acquire"
    /\ __currentFrame = s
    /\ acquired'
    /\ pc' = "ResetCommandBuffer"

\* a step in which a submission of slot s completes and signals the
\* render-finished semaphore of the slot
SignalsRenderFinished(s) == subExecuting'[s] < subExecuting[s]

\* C25: a semaphore of a slot is never given a new signal while its
\* previous signal is pending or not yet consumed. When a submission of
\* slot s signals the render-finished semaphore, the earlier present of the
\* slot has consumed the previous signal: the semaphore is unsignaled; when
\* an acquire signals the image-available semaphore, the earlier submission
\* of the slot has consumed the previous signal: the semaphore is
\* unsignaled.
C25_BinarySemaphoreDiscipline ==
    [][\A s \in Slots :
          /\ SignalsRenderFinished(s) =>
                 __renderFinishedSemaphores[s] = "unsignaled"
          /\ SignalsImageAvailable(s) =>
                 __imageAvailableSemaphores[s] = "unsignaled"]_vars

(* ------------------------------------------------------------------ *)
(* Properties of the model cache                                       *)
(* ------------------------------------------------------------------ *)
\* the entries of a log
EntriesOf(log) == {log[n] : n \in DOMAIN log}

\* the last entry of a non-empty log
LastOf(log) == log[Len(log)]

\* what a step of Create did: the call, the model it made when it found
\* none in the cache, and the Error of that model's import
ThisCall == LastOf(createLog')

MadeModel == LastOf(importLog')[1]

ImportResult == LastOf(importLog')[3]

CacheHit == cachedObjects[ThisCall[2]] # nullptr

\* in every state, a model is in the cache only after its ImportModel
\* returned Success, and it was not destroyed
CachedModelsImported ==
    \A p \in ModelPaths :
        cachedObjects[p] # nullptr =>
            /\ <<cachedObjects[p], p, "Success">> \in EntriesOf(importLog)
            /\ cachedObjects[p] \notin destroyed

\* a Create whose path resolves to an entry of the cache returns the cached
\* object, imports nothing and makes nothing; any other Create makes one
\* model and imports it from the resolved path
HitOrImport ==
    /\ ThisCall[2] = realPaths[ThisCall[1]]
    /\ CacheHit =>
           /\ ThisCall[3] = cachedObjects[ThisCall[2]]
           /\ UNCHANGED <<cachedObjects, importLog, objects, destroyed>>
    /\ ~CacheHit =>
           /\ Len(importLog') = Len(importLog) + 1
           /\ MadeModel = objects + 1
           /\ LastOf(importLog')[2] = ThisCall[2]
           /\ ImportResult = "Success" =>
                  /\ ThisCall[3] = MadeModel
                  /\ cachedObjects'[ThisCall[2]] = MadeModel
                  /\ MadeModel \notin destroyed'
           /\ ImportResult # "Success" =>
                  /\ ThisCall[3] = nullptr
                  /\ MadeModel \in destroyed'

====
